---- MODULE Spec2Model ----
(***************************************************************************)
(* A model of the multipath obfuscating relay: the fragment reassembler    *)
(* (frames.py), the multipath scheduler (scheduler.py), the shaping engine *)
(* (behavior.py), the strategy controller (strategy.py) and the tunnel     *)
(* endpoints (nodes/entry.py, nodes/exit.py).                              *)
(*                                                                         *)
(* Each component has its own group of variables and its own               *)
(* specification; a specification moves its own group and leaves the       *)
(* others unchanged.                                                       *)
(***************************************************************************)
EXTENDS Integers, Sequences, FiniteSets, TLC

VARIABLES
    \* ---- FragmentBuffer (frames.py) and its driver
    fb_buffers,     \* FragmentBuffer._buffers : seq -> (frag_id -> payload)
    fb_totals,      \* FragmentBuffer._totals  : seq -> frag_total
    fb_src,         \* driver: seq -> the fragments the payload was split into
    fb_fed,         \* driver: seq -> frag_ids already handed to add
    fb_ret,         \* driver: seq -> the values add returned, in call order
    \* ---- MultiPathScheduler (scheduler.py)
    weights,        \* MultiPathScheduler.weights : path_id -> weight, in tenths
    stats,          \* MultiPathScheduler.stats   : path_id -> PathStats
    now,            \* time.time(), in milliseconds (it advances in steps of 10)
    sched_metrics,  \* the value the last snapshot() returned
    \* ---- BehaviorShaper (behavior.py) and the senders that drive it
    params_by_path, \* BehaviorShaper.params_by_path : path_id -> BehaviorParams
    path_states,    \* BehaviorShaper.path_states    : path_id -> BehaviorState
    sh_window_id,   \* the endpoint's window_id
    sh_task,        \* sender task -> its fragments not yet written: the
                    \* path_id, and the window in which it was fragmented
    sh_sends,       \* number of sends started so far
    sh_last,        \* the last emission: whether update_burst fired, the
                    \* sizes of the padding frames made, the fragment's window
    \* ---- StrategyEngine (strategy.py): two engines fed the same inputs
    st_cfg,         \* the constructor arguments of both engines
    st_ctr,         \* engine -> [family_index, variant_seed]
    st_window_id,   \* the window_id of the last tick
    st_in,          \* the arguments of the last evaluate call
    st_out,         \* engine -> the StrategyOutput of its last evaluate call
    \* ---- EntryNode's downstream reorder buffer (nodes/entry.py)
    next_down_seq,  \* EntryNode._next_down_seq
    pending_down,   \* EntryNode._pending_down : seq -> payload
    dl_pc,          \* read_path task -> "read" (awaiting a frame) or
                    \* "drain" (suspended in enqueue_downlink's drain)
    dl_arrivals,    \* the seqs handed to enqueue_downlink, in call order
    dl_written,     \* the seqs whose payload was written to the client
    dl_client,      \* the bytes written to the client socket
    \* ---- ExitNode and the target server (nodes/exit.py, nodes/server.py)
    server_locked,  \* ExitNode._server_lock is held
    lock_waiters,   \* the tasks queued on ExitNode._server_lock, in order
    server_writer,  \* ExitNode.server_writer is set (the exit is connected)
    srv_in,         \* the bytes written to the server and not yet read by it
    srv_out,        \* the bytes the server wrote back, not yet read
    xs_pc,          \* handle_middle task -> where it is in forward_to_server
    xs_req,         \* handle_middle task -> the payload it is forwarding
    xs_resp,        \* handle_middle task -> the response readexactly returned
    xs_count,       \* number of payloads forwarded so far
    \* ---- the processes of one run (start_all.py and the nodes' main())
    su_env,         \* the configuration read from the environment
    su_proc,        \* process -> "down", "up" (serving) or "exited"
    cl_pc,          \* the client application: "down", "connected",
                    \* "done" or "failed"
    cl_sent,        \* the bytes the client application wrote to the entry
    cl_recv,        \* the bytes the client application read back
    \* ---- ExitNode's window loop (nodes/exit.py)
    xw_cfg,         \* ExitNode.config, as far as the window loop reads it
    xw_window_task, \* ExitNode._window_task is set
    xw_window_id,   \* ExitNode.window_id
    xw_ctr,         \* ExitNode.strategy: [family_index, variant_seed]
    xw_weights,     \* ExitNode.scheduler.weights, in tenths
    xw_family_by_path,  \* ExitNode.family_by_path
    xw_variant_by_path, \* ExitNode.variant_by_path
    xw_params,      \* ExitNode.behavior.params_by_path
    xw_q_dist,      \* ExitNode.behavior.q_dist_by_path
    xw_path_states, \* ExitNode.behavior.path_states
    xw_proto,       \* ExitNode.proto: its state and its variant_by_path
    xw_log,         \* the records written to the window log, in order
    xw_emit,        \* send_downlink: the paths of the fragments not yet written
    \* ---- ProtoObfuscator on one frame (obfuscation.py, profiles.py)
    ob_in,          \* the frame a sender built, before apply
    ob_key,         \* the key random.randint(1, 255) gave encode_payload
    ob_wire,        \* the frame after apply and encode_payload
    ob_out,         \* the frame after the receiver's decode_payload
    \* ---- the frame codec over one TCP stream (frames.py)
    wr_sent,        \* the frames whose encode() was written, in order
    wr_stream,      \* the bytes written and not yet read
    wr_read,        \* the frames read_from returned, in order
    \* ---- one client session through the tunnel (nodes/entry.py,
    \* ---- nodes/middle.py, nodes/exit.py)
    tn_cfg,         \* the paths of the run, enable_shaping and enable_padding
    tn_seq_counter, \* EntryNode.seq_counter
    tn_stats,       \* EntryNode.scheduler.stats
    tn_up,          \* path -> frames written by the entry, not yet read
    tn_down,        \* path -> frames written by the exit, not yet read
    tn_link,        \* path -> "up" while its middle relays, else "down"
    tn_path_writers,    \* the keys of ExitNode.path_writers
    tn_exit,        \* path -> the handle_middle task: "read", "done", "failed"
    tn_exit_fb,     \* ExitNode.fragment_buffer
    tn_reader,      \* path -> the read_path task: "read", "done", "failed"
    tn_entry_fb,    \* the FragmentBuffer of handle_client
    tn_next_down_seq,   \* EntryNode._next_down_seq
    tn_pending_down,    \* EntryNode._pending_down
    tn_client,      \* the bytes written to the client
    tn_added,       \* per node, the frame last passed to FragmentBuffer.add
    tn_app,         \* per node, the frame whose payload last went to the
                    \* application (the server at the exit, the client at
                    \* the entry)
    tn_written,     \* the headers of the frames the two nodes wrote to the
                    \* path connections
    tn_late_writes, \* the paths send_downlink wrote to after the
                    \* handle_middle of the path had returned
    tn_exit_log,    \* what the exit did in the last round of handle_middle
                    \* that forwarded a payload, in order: "forward" (a payload
                    \* written to the server, with the frame that completed
                    \* it), "down" (a downlink fragment written, with its
                    \* seq and frag_total) and "ack" (an ACK frame written,
                    \* with the path and the frame)
    \* ---- the end of one client session at the entry (nodes/entry.py)
    hc_pc,          \* handle_client: "idle", "loop" (awaiting reader.read),
                    \* "wait_client" and "wait_path" (awaiting a
                    \* wait_closed in the finally block), "returned", "raised"
    hc_i,           \* the index in path_conns of the writer being closed
    hc_conn,        \* path -> its connection: "open", "eof" (the peer closed
                    \* its side), "reset" (lost with an error), "closing"
                    \* (close() called), "closed"
    hc_read_path,   \* path -> its read_path task: "running", "cancelled",
                    \* "failed"
    hc_downlink_task,   \* downlink_task: "none", "pending", "failed",
                    \* "cancelled"
    \* ---- MultiPathScheduler's path choice (scheduler.py)
    cp_path_ids,    \* MultiPathScheduler.path_ids (empty before __init__)
    cp_batch_size,  \* MultiPathScheduler.batch_size
    cp_current_path,    \* MultiPathScheduler._current_path
    cp_batch_remaining, \* MultiPathScheduler._batch_remaining
    cp_picks,       \* the paths the calls returned so far, in call order
    cp_draws,       \* the calls (by their number) that made a weighted draw
    cp_last,        \* the last choose_path_from call: its argument, whether
                    \* it raised, what it returned, the state before it
    \* ---- EntryNode's window loop and its scheduler (nodes/entry.py)
    ew_cfg,         \* EntryNode.config, as far as the window loop reads it
    ew_window_task, \* EntryNode._window_task: "none", "sleeping", "failed"
    ew_wake,        \* the time at which the loop's sleep ends, in ms
    ew_now,         \* time.time(), in ms
    ew_window_id,   \* EntryNode.window_id
    ew_timeout_events,  \* EntryNode.timeout_events
    ew_stats,       \* EntryNode.scheduler.stats
    ew_weights,     \* EntryNode.scheduler.weights, in tenths
    ew_ctr,         \* EntryNode.strategy: [family_index, variant_seed]
    ew_family_by_path,  \* EntryNode.family_by_path
    ew_variant_by_path, \* EntryNode.variant_by_path
    ew_params,      \* EntryNode.behavior.params_by_path
    ew_q_dist,      \* EntryNode.behavior.q_dist_by_path
    ew_path_states, \* EntryNode.behavior.path_states
    ew_log,         \* the records the loop has logged, in order
    ew_tick,        \* the last round of the loop: how many entries it
                    \* expired, how many entries older than the timeout it
                    \* left, the arguments of its evaluate call and whether
                    \* the call raised
    ew_chunks,      \* EntryNode.seq_counter, and the seqs whose ACK is not
                    \* read yet
    \* ---- ExitNode's fragment buffer over the windows (nodes/exit.py, frames.py)
    fw_buffers,     \* ExitNode.fragment_buffer._buffers
    fw_totals,      \* ExitNode.fragment_buffer._totals
    fw_window_id,   \* ExitNode.window_id
    fw_seen,        \* history: seq -> window_id at its latest buffered fragment
    fw_ret,         \* history: what the latest add returned or raised
    \* ---- BehaviorShaper's burst counter (behavior.py)
    ub_params,      \* BehaviorShaper.params_by_path, the burst_size of each path
    ub_states,      \* BehaviorShaper.path_states
    ub_window_id,   \* the window_id of the latest start_window
    ub_calls,       \* history: update_burst calls per path since the reset
    ub_ret,         \* history: the path and result of the latest update_burst
    \* ---- BehaviorShaper.pace on one path (behavior.py)
    pc_now,         \* asyncio's loop.time(), in ms
    pc_params,      \* params_by_path[path]: enable_pacing and the rate, bytes per ms
    pc_state,       \* path_states[path]: last_ts and tokens of the current object
    pc_epoch,       \* how many times start_window has replaced the state object
    pc_task,        \* per sender: where it is in pace, and the object it holds
    pc_calls,       \* pace calls made so far
    pc_last,        \* history: what the latest pace call saw and did
    \* ---- EntryNode over several client connections (nodes/entry.py)
    sn_conn,         \* client connections accepted so far, and whether one is open
    sn_seq_counter,  \* EntryNode.seq_counter
    sn_next_down_seq,\* EntryNode._next_down_seq
    sn_pending_down, \* EntryNode._pending_down
    sn_first_seq,    \* history: the first seq send_chunk gave this connection, or -1
    sn_awaited,      \* the seqs of this connection whose response has not arrived
    sn_written,      \* the seqs written to this connection's client, in order
    \* ---- Tasks of the exit writing to one path writer (nodes/exit.py)
    sk_stream,      \* the bytes handed to the path writer, in order
    sk_task,        \* per task: idle or in a drain, and the buffers of its frame not yet handed over
    sk_frames,      \* history: the frames in the order of their write calls
    \* ---- The handshake of a session of the entry (nodes/entry.py)
    hs_pc,          \* handle_client: idle, path (top of the loop over conns), write, sleep, relay
    hs_sessions,    \* the clients accepted so far
    hs_window_task, \* _window_task is not None
    hs_family_by_path,  \* EntryNode.family_by_path
    hs_variant_by_path, \* EntryNode.variant_by_path
    hs_path,        \* send_handshake: the index of the connection being served
    hs_todo,        \* send_handshake: the (frame, delay_ms) pairs of the path not yet written
    hs_chunks,      \* the fragments written in the session
    hs_family_used, \* history: per path, the family_id its handshake list was built from
    hs_wire         \* per path connection of the session: [frame, slept], the frames written and the sleep that followed each

fbVars == <<fb_buffers, fb_totals, fb_src, fb_fed, fb_ret>>
schedVars == <<weights, stats, now, sched_metrics>>
shVars == <<params_by_path, path_states, sh_window_id, sh_task, sh_sends, sh_last>>
stVars == <<st_cfg, st_ctr, st_window_id, st_in, st_out>>
dlVars == <<next_down_seq, pending_down, dl_pc, dl_arrivals, dl_written, dl_client>>
xsVars == <<server_locked, lock_waiters, server_writer, srv_in, srv_out,
            xs_pc, xs_req, xs_resp, xs_count>>

suVars == <<su_env, su_proc, cl_pc, cl_sent, cl_recv>>
xwVars == <<xw_cfg, xw_window_task, xw_window_id, xw_ctr, xw_weights,
            xw_family_by_path, xw_variant_by_path, xw_params, xw_q_dist,
            xw_path_states, xw_proto, xw_log, xw_emit>>

obVars == <<ob_in, ob_key, ob_wire, ob_out>>
wrVars == <<wr_sent, wr_stream, wr_read>>
tnVars == <<tn_cfg, tn_seq_counter, tn_stats, tn_up, tn_down, tn_link,
            tn_path_writers, tn_exit, tn_exit_fb, tn_reader, tn_entry_fb,
            tn_next_down_seq, tn_pending_down, tn_client, tn_added, tn_app,
            tn_written, tn_late_writes, tn_exit_log>>
hcVars == <<hc_pc, hc_i, hc_conn, hc_read_path, hc_downlink_task>>
cpVars == <<cp_path_ids, cp_batch_size, cp_current_path, cp_batch_remaining,
            cp_picks, cp_draws, cp_last>>
ewVars == <<ew_cfg, ew_window_task, ew_wake, ew_now, ew_window_id,
            ew_timeout_events, ew_stats, ew_weights, ew_ctr,
            ew_family_by_path, ew_variant_by_path, ew_params, ew_q_dist,
            ew_path_states, ew_log, ew_tick, ew_chunks>>
fwVars == <<fw_buffers, fw_totals, fw_window_id, fw_seen, fw_ret>>
ubVars == <<ub_params, ub_states, ub_window_id, ub_calls, ub_ret>>
pcVars == <<pc_now, pc_params, pc_state, pc_epoch, pc_task, pc_calls, pc_last>>
snVars == <<sn_conn, sn_seq_counter, sn_next_down_seq, sn_pending_down,
            sn_first_seq, sn_awaited, sn_written>>
skVars == <<sk_stream, sk_task, sk_frames>>
hsVars == <<hs_pc, hs_sessions, hs_window_task, hs_family_by_path,
            hs_variant_by_path, hs_path, hs_todo, hs_chunks, hs_family_used,
            hs_wire>>
vars == <<fbVars, schedVars, shVars, stVars, dlVars, xsVars, suVars, xwVars,
          obVars, wrVars, tnVars, hcVars, cpVars, ewVars, fwVars, ubVars,
          pcVars, snVars, skVars, hsVars>>

\* What each specification leaves unchanged.
fbOthers == <<schedVars, shVars, stVars, dlVars, xsVars, suVars, xwVars,
              obVars, wrVars, tnVars, hcVars, cpVars, ewVars, fwVars,
              ubVars, pcVars, snVars, skVars, hsVars>>
schedOthers == <<fbVars, shVars, stVars, dlVars, xsVars, suVars, xwVars,
                 obVars, wrVars, tnVars, hcVars, cpVars, ewVars, fwVars,
                 ubVars, pcVars, snVars, skVars, hsVars>>
shOthers == <<fbVars, schedVars, stVars, dlVars, xsVars, suVars, xwVars,
              obVars, wrVars, tnVars, hcVars, cpVars, ewVars, fwVars,
              ubVars, pcVars, snVars, skVars, hsVars>>
stOthers == <<fbVars, schedVars, shVars, dlVars, xsVars, suVars, xwVars,
              obVars, wrVars, tnVars, hcVars, cpVars, ewVars, fwVars,
              ubVars, pcVars, snVars, skVars, hsVars>>
dlOthers == <<fbVars, schedVars, shVars, stVars, xsVars, suVars, xwVars,
              obVars, wrVars, tnVars, hcVars, cpVars, ewVars, fwVars,
              ubVars, pcVars, snVars, skVars, hsVars>>
xsOthers == <<fbVars, schedVars, shVars, stVars, dlVars, suVars, xwVars,
              obVars, wrVars, tnVars, hcVars, cpVars, ewVars, fwVars,
              ubVars, pcVars, snVars, skVars, hsVars>>
suOthers == <<fbVars, schedVars, shVars, stVars, dlVars, xsVars, xwVars,
              obVars, wrVars, tnVars, hcVars, cpVars, ewVars, fwVars,
              ubVars, pcVars, snVars, skVars, hsVars>>
xwOthers == <<fbVars, schedVars, shVars, stVars, dlVars, xsVars, suVars,
              obVars, wrVars, tnVars, hcVars, cpVars, ewVars, fwVars,
              ubVars, pcVars, snVars, skVars, hsVars>>
obOthers == <<fbVars, schedVars, shVars, stVars, dlVars, xsVars, suVars,
              xwVars, wrVars, tnVars, hcVars, cpVars, ewVars, fwVars,
              ubVars, pcVars, snVars, skVars, hsVars>>
wrOthers == <<fbVars, schedVars, shVars, stVars, dlVars, xsVars, suVars,
              xwVars, obVars, tnVars, hcVars, cpVars, ewVars, fwVars,
              ubVars, pcVars, snVars, skVars, hsVars>>
tnOthers == <<fbVars, schedVars, shVars, stVars, dlVars, xsVars, suVars,
              xwVars, obVars, wrVars, hcVars, cpVars, ewVars, fwVars,
              ubVars, pcVars, snVars, skVars, hsVars>>
hcOthers == <<fbVars, schedVars, shVars, stVars, dlVars, xsVars, suVars,
              xwVars, obVars, wrVars, tnVars, cpVars, ewVars, fwVars,
              ubVars, pcVars, snVars, skVars, hsVars>>
cpOthers == <<fbVars, schedVars, shVars, stVars, dlVars, xsVars, suVars,
              xwVars, obVars, wrVars, tnVars, hcVars, ewVars, fwVars,
              ubVars, pcVars, snVars, skVars, hsVars>>
ewOthers == <<fbVars, schedVars, shVars, stVars, dlVars, xsVars, suVars,
              xwVars, obVars, wrVars, tnVars, hcVars, cpVars, fwVars,
              ubVars, pcVars, snVars, skVars, hsVars>>
fwOthers == <<fbVars, schedVars, shVars, stVars, dlVars, xsVars, suVars,
              xwVars, obVars, wrVars, tnVars, hcVars, cpVars, ewVars,
              ubVars, pcVars, snVars, skVars, hsVars>>
ubOthers == <<fbVars, schedVars, shVars, stVars, dlVars, xsVars, suVars,
              xwVars, obVars, wrVars, tnVars, hcVars, cpVars, ewVars,
              fwVars, pcVars, snVars, skVars, hsVars>>
pcOthers == <<fbVars, schedVars, shVars, stVars, dlVars, xsVars, suVars,
              xwVars, obVars, wrVars, tnVars, hcVars, cpVars, ewVars,
              fwVars, ubVars, snVars, skVars, hsVars>>
snOthers == <<fbVars, schedVars, shVars, stVars, dlVars, xsVars, suVars,
              xwVars, obVars, wrVars, tnVars, hcVars, cpVars, ewVars,
              fwVars, ubVars, pcVars, skVars, hsVars>>
skOthers == <<fbVars, schedVars, shVars, stVars, dlVars, xsVars, suVars,
              xwVars, obVars, wrVars, tnVars, hcVars, cpVars, ewVars,
              fwVars, ubVars, pcVars, snVars, hsVars>>
hsOthers == <<fbVars, schedVars, shVars, stVars, dlVars, xsVars, suVars,
              xwVars, obVars, wrVars, tnVars, hcVars, cpVars, ewVars,
              fwVars, ubVars, pcVars, snVars, skVars>>

\* ------------------------------------------------------------------------
\* Generic helpers for Python dicts and byte strings
\* ------------------------------------------------------------------------

\* The empty dict.
EmptyMap == [x \in {} |-> 0]

\* d[k] = v
Put(d, k, v) == [x \in (DOMAIN d) \cup {k} |-> IF x = k THEN v ELSE d[x]]

\* d.pop(k, None)
Drop(d, k) == [x \in (DOMAIN d) \ {k} |-> d[x]]

RECURSIVE Concat(_)
\* b"".join(parts) for a sequence of byte strings
Concat(parts) ==
    IF parts = <<>> THEN <<>> ELSE Head(parts) \o Concat(Tail(parts))

\* ------------------------------------------------------------------------
\* FragmentBuffer (frames.py)
\* ------------------------------------------------------------------------

\* Bound: the largest frag_total of a payload the driver splits.
MaxFrags == 3

\* The seqs the driver uses and the byte strings a fragment may carry.
FbSeqs == {0, 1}
FbPieces == {<<1>>, <<2, 1>>}

\* A flawed join, taking the fragments in descending frag_id order.
FB_join_descending(buf, frag_total) ==
    Concat([i \in 1..frag_total |-> buf[frag_total - i]])

\* parts = [buffers[seq][idx] for idx in range(frag_total)]; b"".join(parts)
FB_join(buf, frag_total) ==
    Concat([i \in 1..frag_total |-> buf[i - 1]])

\* FragmentBuffer.add(frame): the buffer after the call and the returned pair.
\* raised = TRUE stands for the KeyError of indexing a missing frag_id.
add(buffers, totals, frame) ==
    LET isNew == frame.seq \notin DOMAIN buffers
        b0 == IF isNew THEN Put(buffers, frame.seq, EmptyMap) ELSE buffers
        t0 == IF isNew THEN Put(totals, frame.seq, frame.frag_total) ELSE totals
        b1 == Put(b0, frame.seq, Put(b0[frame.seq], frame.frag_id, frame.payload))
    IN  IF Cardinality(DOMAIN b1[frame.seq]) >= t0[frame.seq]
        THEN IF \A idx \in 0..(frame.frag_total - 1) : idx \in DOMAIN b1[frame.seq]
             THEN [buffers |-> Drop(b1, frame.seq), totals |-> Drop(t0, frame.seq),
                   complete |-> TRUE, none |-> FALSE,
                   payload |-> FB_join(b1[frame.seq], frame.frag_total),
                   raised |-> FALSE]
             ELSE [buffers |-> b1, totals |-> t0, complete |-> FALSE,
                   none |-> TRUE, payload |-> <<>>, raised |-> TRUE]
        ELSE [buffers |-> b1, totals |-> t0, complete |-> FALSE,
              none |-> TRUE, payload |-> <<>>, raised |-> FALSE]

FbInit ==
    /\ fb_buffers = EmptyMap
    /\ fb_totals = EmptyMap
    /\ fb_src = [s \in FbSeqs |-> <<>>]
    /\ fb_fed = [s \in FbSeqs |-> {}]
    /\ fb_ret = [s \in FbSeqs |-> <<>>]

\* The sender splits a payload for seq s into n fragments (send_chunk's
\* fragmenting loop): frag_id i carries pieces[i+1], frag_total is n.
FbSplit(s) ==
    /\ fb_src[s] = <<>>
    /\ \E n \in 1..MaxFrags : \E pieces \in [1..n -> FbPieces] :
          fb_src' = [fb_src EXCEPT ![s] = pieces]
    /\ UNCHANGED <<fb_buffers, fb_totals, fb_fed, fb_ret>>

\* One fragment of seq s, not fed before, reaches the reassembler.
FbFeed(s) ==
    /\ fb_src[s] # <<>>
    /\ \E i \in (0..(Len(fb_src[s]) - 1)) \ fb_fed[s] :
          LET frame == [seq |-> s, frag_id |-> i, frag_total |-> Len(fb_src[s]),
                        payload |-> fb_src[s][i + 1]]
              r == add(fb_buffers, fb_totals, frame)
          IN  /\ fb_buffers' = r.buffers
              /\ fb_totals' = r.totals
              /\ fb_fed' = [fb_fed EXCEPT ![s] = @ \cup {i}]
              /\ fb_ret' = [fb_ret EXCEPT ![s] =
                              Append(@, [complete |-> r.complete, none |-> r.none,
                                         payload |-> r.payload, raised |-> r.raised])]
    /\ UNCHANGED fb_src

\* ------------------------------------------------------------------------
\* MultiPathScheduler (scheduler.py): weights and per-path telemetry
\* ------------------------------------------------------------------------

\* Bounds of the scheduler driver: calls of mark_sent and of mark_ack over
\* all paths, and the number of clock steps.
MaxSent == 2
MaxAcked == 3
MaxClock == 1

\* The weight floor 0.1 and the initial weight 1.0, in tenths.
WeightFloor == 1
WeightOne == 10

SchedPaths == {0, 1}
SchedSeqs == {0, 1}
\* Weights a caller may pass to update_weights, in tenths (-0.5 .. 2.0).
WeightInputs == (-5)..20

RECURSIVE SumOver(_, _)
\* sum(f[x] for x in S)
SumOver(f, S) ==
    IF S = {} THEN 0
    ELSE LET x == CHOOSE y \in S : TRUE IN f[x] + SumOver(f, S \ {x})

\* A flawed clamp that lets every weight through.
update_weights_unclamped(w, arg) ==
    [p \in DOMAIN w |-> IF p \in DOMAIN arg THEN arg[p] ELSE w[p]]

\* MultiPathScheduler.update_weights(weights): self.weights[p] = max(weight, 0.1)
update_weights(w, arg) ==
    [p \in DOMAIN w |->
        IF p \in DOMAIN arg
        THEN (IF arg[p] > WeightFloor THEN arg[p] ELSE WeightFloor)
        ELSE w[p]]

\* PathStats()
PathStats0 == [sent |-> 0, acked |-> 0, rtt_ms |-> 0, last_send_ts |-> EmptyMap]

\* MultiPathScheduler.mark_sent(path_id, seq)
mark_sent(st, path_id, seq, t) ==
    [st EXCEPT ![path_id] =
        [@ EXCEPT !.sent = @ + 1, !.last_send_ts = Put(@, seq, t)]]

\* A flawed mark_ack that smooths the RTT on every ACK, matched or not.
mark_ack_unmatched_rtt(st, path_id, seq, t) ==
    LET ps == st[path_id]
        matched == seq \in DOMAIN ps.last_send_ts
        rtt == IF matched THEN t - ps.last_send_ts[seq] ELSE t
    IN  [st EXCEPT ![path_id] =
            [@ EXCEPT !.acked = @ + 1,
                      !.last_send_ts = Drop(@, seq),
                      !.rtt_ms = (ps.rtt_ms * 7 + rtt * 3) \div 10]]

\* MultiPathScheduler.mark_ack(path_id, seq). rtt_ms is kept in fixed point:
\* rtt_ms * 0.7 + rtt * 0.3 with the result truncated to a whole millisecond.
mark_ack(st, path_id, seq, t) ==
    LET ps == st[path_id]
        matched == seq \in DOMAIN ps.last_send_ts
        rtt == IF matched THEN t - ps.last_send_ts[seq] ELSE 0
    IN  [st EXCEPT ![path_id] =
            [@ EXCEPT !.acked = @ + 1,
                      !.last_send_ts = Drop(@, seq),
                      !.rtt_ms = IF matched THEN (ps.rtt_ms * 7 + rtt * 3) \div 10
                                 ELSE @]]

\* A flawed loss that is not clamped at zero.
path_loss_unclamped(ps) ==
    IF ps.sent > 0 THEN [num |-> ps.sent - ps.acked, den |-> ps.sent]
    ELSE [num |-> 0, den |-> 1]

\* snapshot(): loss = max(0.0, 1 - acked / sent) when sent > 0, else 0.0,
\* as the exact fraction num / den.
path_loss(ps) ==
    IF ps.sent > 0
    THEN [num |-> IF ps.sent - ps.acked > 0 THEN ps.sent - ps.acked ELSE 0,
          den |-> ps.sent]
    ELSE [num |-> 0, den |-> 1]

\* MultiPathScheduler.snapshot()
snapshot(st) ==
    [p \in DOMAIN st |-> [rtt_ms |-> st[p].rtt_ms, loss |-> path_loss(st[p])]]

SchedInit ==
    /\ weights = [p \in SchedPaths |-> WeightOne]
    /\ stats = [p \in SchedPaths |-> PathStats0]
    /\ now = 0
    /\ sched_metrics = snapshot([p \in SchedPaths |-> PathStats0])

\* update_weights with an arbitrary weight map over a subset of the paths.
UpdateWeights ==
    /\ \E ps \in (SUBSET SchedPaths) \ {{}} : \E arg \in [ps -> WeightInputs] :
          weights' = update_weights(weights, arg)
    /\ UNCHANGED <<stats, now, sched_metrics>>

MarkSent(p, seq) ==
    /\ SumOver([q \in SchedPaths |-> stats[q].sent], SchedPaths) < MaxSent
    /\ stats' = mark_sent(stats, p, seq, now)
    /\ UNCHANGED <<weights, now, sched_metrics>>

\* An ACK for any seq: sent, never sent, or acknowledged before.
MarkAck(p, seq) ==
    /\ SumOver([q \in SchedPaths |-> stats[q].acked], SchedPaths) < MaxAcked
    /\ stats' = mark_ack(stats, p, seq, now)
    /\ UNCHANGED <<weights, now, sched_metrics>>

Snapshot ==
    /\ sched_metrics' = snapshot(stats)
    /\ UNCHANGED <<weights, stats, now>>

AdvanceClock ==
    /\ now < MaxClock * 10
    /\ now' = now + 10
    /\ UNCHANGED <<weights, stats, sched_metrics>>

\* ------------------------------------------------------------------------
\* BehaviorShaper (behavior.py): real/padding byte accounting per window
\* ------------------------------------------------------------------------

\* Bounds of the shaper driver: sends started and window ticks.
MaxSends == 2
MaxWindow == 2

\* make_padding_frames(template_frame, max_frames=3)
MaxPaddingFrames == 3
\* padding_alpha is held in ten-thousandths (0.01 is 100).
AlphaDen == 10000
\* BehaviorParams.burst_size of the constructors' base_params
BaseBurst == 6

ShPaths == {0, 1}
ShTasks == {0, 1}
\* The size bins of the length sampler, and the lengths a fragment can have
\* (a sampled bin, or the shorter tail of the data).
ShBins == {200, 300}
ShPieceLens == {150, 300}
\* The numbers of fragments one send can have.
ShFragCounts == 1..2
\* The padding settings the controller can install at a tick: level 0
\* (padding off), level 0 in baseline_padding mode under overload damping
\* (alpha 0.01, burst 1), and level 1 with base padding 0.5 (burst 4).
ShParamChoices ==
    { [padding_alpha |-> 0,    burst_size |-> 1, enable_padding |-> FALSE],
      [padding_alpha |-> 100,  burst_size |-> 1, enable_padding |-> TRUE],
      [padding_alpha |-> 5000, burst_size |-> 4, enable_padding |-> TRUE] }

\* BehaviorState(window_id=w)
BehaviorState0(w) ==
    [window_id |-> w, real_bytes |-> 0, padding_bytes |-> 0,
     padding_budget |-> 0, burst_count |-> 0]

\* A flawed reset that carries the padding budget into the new window.
start_window_keeps_budget(ps, w) ==
    [p \in DOMAIN ps |-> [BehaviorState0(w) EXCEPT !.padding_budget = ps[p].padding_budget]]

\* BehaviorShaper.start_window(window_id): every path gets a fresh state.
start_window(ps, w) ==
    [p \in DOMAIN ps |-> BehaviorState0(w)]

\* BehaviorShaper.set_params(path_id, params) for a path that has a state.
set_params(pp, path_id, params) ==
    [pp EXCEPT ![path_id] = params]

\* BehaviorShaper.note_real_bytes(path_id, size):
\* padding_budget = int(real_bytes * padding_alpha)
note_real_bytes(ps, pp, path_id, size) ==
    [ps EXCEPT ![path_id] =
        [@ EXCEPT !.real_bytes = @ + size,
                  !.padding_budget =
                      ((ps[path_id].real_bytes + size) * pp[path_id].padding_alpha)
                          \div AlphaDen]]

\* A flawed update_burst that fires one call late.
update_burst_late(ps, pp, path_id) ==
    LET c == ps[path_id].burst_count + 1
        fire == c > pp[path_id].burst_size
    IN  [states |-> [ps EXCEPT ![path_id].burst_count = IF fire THEN 0 ELSE c],
         fire |-> fire]

\* BehaviorShaper.update_burst(path_id): the state after, and the result.
update_burst(ps, pp, path_id) ==
    LET c == ps[path_id].burst_count + 1
        fire == c >= pp[path_id].burst_size
    IN  [states |-> [ps EXCEPT ![path_id].burst_count = IF fire THEN 0 ELSE c],
         fire |-> fire]

Min(a, b) == IF a < b THEN a ELSE b

RECURSIVE PadLoop(_, _, _, _)
\* The loop of make_padding_frames from frame k on: the sizes of the frames,
\* each min(sample_target_len(), remaining).
PadLoop(k, remaining, samples, capped) ==
    IF k > MaxPaddingFrames \/ remaining <= 0 THEN <<>>
    ELSE LET size == IF capped THEN Min(samples[k], remaining) ELSE samples[k]
         IN  <<size>> \o PadLoop(k + 1, remaining - size, samples, capped)

\* A flawed padding synthesiser that does not cap a frame at the budget left.
make_padding_frames_uncapped(st, params, samples) ==
    IF ~params.enable_padding THEN <<>>
    ELSE IF st.padding_bytes >= st.padding_budget THEN <<>>
    ELSE PadLoop(1, st.padding_budget - st.padding_bytes, samples, FALSE)

\* BehaviorShaper.make_padding_frames(template): the sizes of the frames made
\* for the path whose state is st, given the sampled target lengths.
make_padding_frames(st, params, samples) ==
    IF ~params.enable_padding THEN <<>>
    ELSE IF st.padding_bytes >= st.padding_budget THEN <<>>
    ELSE PadLoop(1, st.padding_budget - st.padding_bytes, samples, TRUE)

RECURSIVE SeqSum(_)
SeqSum(q) == IF q = <<>> THEN 0 ELSE Head(q) + SeqSum(Tail(q))

RECURSIVE NoteAll(_, _, _)
\* The fragmenting loop's note_real_bytes calls, one per fragment in order.
NoteAll(ps, pp, frags) ==
    IF frags = <<>> THEN ps
    ELSE NoteAll(note_real_bytes(ps, pp, Head(frags).path_id, Head(frags).len),
                 pp, Tail(frags))

ShInit ==
    /\ params_by_path = [p \in ShPaths |->
            [padding_alpha |-> 5000, burst_size |-> BaseBurst, enable_padding |-> TRUE]]
    /\ path_states = [p \in ShPaths |-> BehaviorState0(0)]
    /\ sh_window_id = 0
    /\ sh_task = [t \in ShTasks |-> <<>>]
    /\ sh_sends = 0
    /\ sh_last = [fire |-> FALSE, sizes |-> <<>>, win |-> 0]

\* The fragmenting loop of a send (send_downlink / send_chunk), which runs
\* without suspension: it picks a path and a length for every fragment and
\* notes the real bytes of each.
SendFragmenting(t) ==
    /\ sh_task[t] = <<>>
    /\ sh_sends < MaxSends
    /\ \E n \in ShFragCounts :
       \E frags \in [1..n -> [path_id : ShPaths, len : ShPieceLens]] :
          /\ sh_task' = [sh_task EXCEPT ![t] =
                [i \in 1..n |-> [path_id |-> frags[i].path_id, win |-> sh_window_id]]]
          /\ path_states' = NoteAll(path_states, params_by_path, frags)
    /\ sh_sends' = sh_sends + 1
    /\ UNCHANGED <<params_by_path, sh_window_id, sh_last>>

\* One round of the emission loop after its suspension points (pace, jitter
\* sleep): the fragment is written, update_burst is called and, when it
\* fires, make_padding_frames synthesises the padding burst.
SendEmit(t) ==
    /\ sh_task[t] # <<>>
    /\ LET path_id == Head(sh_task[t]).path_id
           ub == update_burst(path_states, params_by_path, path_id)
       IN  IF ub.fire
           THEN \E samples \in [1..MaxPaddingFrames -> ShBins] :
                  LET sizes == make_padding_frames(ub.states[path_id],
                                                   params_by_path[path_id], samples)
                  IN  /\ path_states' =
                            [ub.states EXCEPT ![path_id].padding_bytes = @ + SeqSum(sizes)]
                      /\ sh_last' = [fire |-> TRUE, sizes |-> sizes,
                                     win |-> Head(sh_task[t]).win]
           ELSE /\ path_states' = ub.states
                /\ sh_last' = [fire |-> FALSE, sizes |-> <<>>,
                               win |-> Head(sh_task[t]).win]
    /\ sh_task' = [sh_task EXCEPT ![t] = Tail(@)]
    /\ UNCHANGED <<params_by_path, sh_window_id, sh_sends>>

\* The window tick (start_window_loop), which runs without suspension:
\* set_params for every path with the controller's output, then
\* start_window with the incremented window_id.
ShWindowTick ==
    /\ sh_window_id < MaxWindow
    /\ \E c \in ShParamChoices :
          params_by_path' = [p \in ShPaths |-> set_params(params_by_path, p, c)[p]]
    /\ sh_window_id' = sh_window_id + 1
    /\ path_states' = start_window(path_states, sh_window_id + 1)
    /\ UNCHANGED <<sh_task, sh_sends, sh_last>>

\* ------------------------------------------------------------------------
\* StrategyEngine (strategy.py)
\* ------------------------------------------------------------------------

\* Bound: window ticks of the controller driver.
MaxTicks == 3

\* Thresholds and factors of evaluate. Loss is an exact fraction num / den,
\* padding is in ten-thousandths, weights are in tenths.
RttWeightLimit == 200
RttDampLimit == 250
PaddingFloor == 100
JitterFloor == 5
WeightHalf == 5

StPaths == {0, 1}
StEngines == {1, 2}
StLevels == 0..3
StModes == {"normal", "baseline_delay", "baseline_padding"}
FamilyIds == <<1, 2, 3>>
\* The configured size bins, and what int(b * uniform(0.9, 1.1)) can give.
StSizeBins == <<5>>
JitteredBins(bins) ==
    { j \in [1..Len(bins) -> 0..(2 * bins[1])] :
        \A i \in 1..Len(bins) :
            /\ j[i] >= (bins[i] * 9) \div 10
            /\ j[i] <= (bins[i] * 11) \div 10 }

\* The configurations the engines are built with.
StConfigs ==
    [ size_bins : {StSizeBins}, base_padding : {100, 1000}, base_jitter : {20},
      family_ids : {FamilyIds}, base_rate : {50000},
      obfuscation_level : StLevels, mode : StModes,
      proto_switch_period : {2},
      adaptive_paths : BOOLEAN, adaptive_behavior : BOOLEAN,
      adaptive_proto : BOOLEAN ]

Frac(n, d) == [num |-> n, den |-> d]
\* Scheduler snapshots fed to the controller: a quiet one, one with a lossy
\* path (mean loss 0.25), one with high RTT on both paths (mean 300), one
\* with a mildly lossy path (loss 0.25 on one path, mean 0.125), and one that
\* sits on both damping thresholds (mean loss 0.2, mean RTT 250).
StMetrics ==
    { [p \in StPaths |-> [rtt_ms |-> 0, loss |-> Frac(0, 1)]],
      [p \in StPaths |-> [rtt_ms |-> 250, loss |-> IF p = 0 THEN Frac(2, 5) ELSE Frac(0, 1)]],
      [p \in StPaths |-> [rtt_ms |-> 0, loss |-> IF p = 0 THEN Frac(1, 2) ELSE Frac(0, 1)]],
      [p \in StPaths |-> [rtt_ms |-> 300, loss |-> Frac(0, 1)]],
      [p \in StPaths |-> [rtt_ms |-> 150, loss |-> IF p = 1 THEN Frac(1, 4) ELSE Frac(0, 1)]] }
\* The two sides of the timeout threshold of evaluate.
StTimeouts == {2, 3}

RECURSIVE FracSum(_, _)
\* sum(f[x] for x in S) of exact fractions
FracSum(f, S) ==
    IF S = {} THEN Frac(0, 1)
    ELSE LET x == CHOOSE y \in S : TRUE
             r == FracSum(f, S \ {x})
         IN  Frac(f[x].num * r.den + r.num * f[x].den, f[x].den * r.den)

Max(a, b) == IF a > b THEN a ELSE b

\* The obfuscation-level preset of evaluate (lines 71-103).
LevelPreset(cfg) ==
    LET level == cfg.obfuscation_level
    IN  IF level = 0
        THEN [padding |-> 0, jitter |-> 0, burst |-> 1, rate |-> cfg.base_rate * 2,
              enable |-> FALSE]
        ELSE IF level = 1
        THEN [padding |-> cfg.base_padding, jitter |-> cfg.base_jitter, burst |-> 4,
              rate |-> (cfg.base_rate * 12) \div 10, enable |-> TRUE]
        ELSE IF level = 2
        THEN [padding |-> cfg.base_padding, jitter |-> cfg.base_jitter, burst |-> 6,
              rate |-> cfg.base_rate, enable |-> TRUE]
        ELSE [padding |-> cfg.base_padding, jitter |-> cfg.base_jitter, burst |-> 8,
              rate |-> (cfg.base_rate * 8) \div 10, enable |-> TRUE]

\* A flawed overload test whose thresholds are inclusive.
Overloaded_inclusive(metrics) ==
    LET n == Max(Cardinality(DOMAIN metrics), 1)
        sl == FracSum([p \in DOMAIN metrics |-> metrics[p].loss], DOMAIN metrics)
        sr == SumOver([p \in DOMAIN metrics |-> metrics[p].rtt_ms], DOMAIN metrics)
    IN  \/ 5 * sl.num >= n * sl.den
        \/ sr >= RttDampLimit * n

\* mean_loss > 0.2 or mean_rtt > 250 (lines 68-69, 105)
Overloaded(metrics) ==
    LET n == Max(Cardinality(DOMAIN metrics), 1)
        sl == FracSum([p \in DOMAIN metrics |-> metrics[p].loss], DOMAIN metrics)
        sr == SumOver([p \in DOMAIN metrics |-> metrics[p].rtt_ms], DOMAIN metrics)
    IN  \/ 5 * sl.num > n * sl.den
        \/ sr > RttDampLimit * n

\* Overload damping (lines 105-108) applied to a preset.
Damped(pre, metrics) ==
    IF Overloaded(metrics)
    THEN [pre EXCEPT !.padding = Max(PaddingFloor, pre.padding \div 2),
                     !.jitter = Max(JitterFloor, pre.jitter \div 2),
                     !.rate = (pre.rate * 8) \div 10]
    ELSE pre

\* A flawed trigger that takes two timeout events for a timeout already.
Trigger_timeout_from_two(cfg, timeout_events, window_id) ==
    IF ~cfg.adaptive_proto THEN "none"
    ELSE IF timeout_events >= 2 THEN "timeout"
    ELSE IF window_id % cfg.proto_switch_period = 0 THEN "periodic"
    ELSE "none"

\* A flawed trigger whose timeout threshold is off by one.
Trigger_timeout_above_three(cfg, timeout_events, window_id) ==
    IF ~cfg.adaptive_proto THEN "none"
    ELSE IF timeout_events > 3 THEN "timeout"
    ELSE IF window_id % cfg.proto_switch_period = 0 THEN "periodic"
    ELSE "none"

\* A flawed trigger that counts the periods from window 1.
Trigger_period_from_one(cfg, timeout_events, window_id) ==
    IF ~cfg.adaptive_proto THEN "none"
    ELSE IF timeout_events > 2 THEN "timeout"
    ELSE IF (window_id - 1) % cfg.proto_switch_period = 0 THEN "periodic"
    ELSE "none"

\* The rotation trigger (lines 113-118).
Trigger(cfg, timeout_events, window_id) ==
    IF ~cfg.adaptive_proto THEN "none"
    ELSE IF timeout_events > 2 THEN "timeout"
    ELSE IF window_id % cfg.proto_switch_period = 0 THEN "periodic"
    ELSE "none"

\* A flawed override whose baseline_padding branch leaves pacing and jitter
\* as the level preset set them.
mode_flags_pacing_kept(mode, adaptive_behavior, enable) ==
    IF mode = "baseline_delay"
    THEN [enable_shaping |-> FALSE, enable_padding |-> FALSE,
          enable_pacing |-> TRUE, enable_jitter |-> TRUE, fixed_proto |-> TRUE]
    ELSE IF mode = "baseline_padding"
    THEN [enable_shaping |-> TRUE, enable_padding |-> TRUE,
          enable_pacing |-> enable, enable_jitter |-> enable, fixed_proto |-> TRUE]
    ELSE [enable_shaping |-> enable /\ adaptive_behavior,
          enable_padding |-> enable /\ adaptive_behavior,
          enable_pacing |-> enable /\ adaptive_behavior,
          enable_jitter |-> enable /\ adaptive_behavior,
          fixed_proto |-> FALSE]

\* The per-path mode override of evaluate (lines 130-158): the four toggles,
\* from the value enable the level preset gave them, and whether the mode
\* pins family 1, variant 0.
mode_flags(mode, adaptive_behavior, enable) ==
    IF mode = "baseline_delay"
    THEN [enable_shaping |-> FALSE, enable_padding |-> FALSE,
          enable_pacing |-> TRUE, enable_jitter |-> TRUE, fixed_proto |-> TRUE]
    ELSE IF mode = "baseline_padding"
    THEN [enable_shaping |-> TRUE, enable_padding |-> TRUE,
          enable_pacing |-> FALSE, enable_jitter |-> FALSE, fixed_proto |-> TRUE]
    ELSE [enable_shaping |-> enable /\ adaptive_behavior,
          enable_padding |-> enable /\ adaptive_behavior,
          enable_pacing |-> enable /\ adaptive_behavior,
          enable_jitter |-> enable /\ adaptive_behavior,
          fixed_proto |-> FALSE]

\* A flawed label in which the first label that applies wins.
action_label_first_wins(cfg, w, trigger) ==
    IF trigger # "none" THEN "switch_proto"
    ELSE IF cfg.adaptive_paths /\ \E p \in DOMAIN w : w[p] < WeightOne
         THEN "update_weights"
    ELSE IF cfg.adaptive_behavior THEN "update_behavior"
    ELSE "static"

\* The action label (lines 122-128): of the assignments in the order
\* switch_proto, update_weights, update_behavior the last one made stands.
action_label(cfg, w, trigger) ==
    IF cfg.adaptive_behavior THEN "update_behavior"
    ELSE IF cfg.adaptive_paths /\ \E p \in DOMAIN w : w[p] < WeightOne
         THEN "update_weights"
    ELSE IF trigger # "none" THEN "switch_proto"
    ELSE "static"

\* StrategyEngine.evaluate(metrics, timeout_events, window_id) of an engine
\* with configuration cfg and counters ctr; bins is what the size-bin jitter
\* int(b * random.uniform(0.9, 1.1)) drew. The result holds the output and
\* the counters after the call.
evaluate(cfg, ctr, metrics, timeout_events, window_id, bins) ==
    LET paths == DOMAIN metrics
        w == [p \in paths |->
                IF cfg.adaptive_paths
                   /\ (metrics[p].loss.num * 10 > metrics[p].loss.den
                       \/ metrics[p].rtt_ms > RttWeightLimit)
                THEN WeightHalf ELSE WeightOne]
        pre == Damped(LevelPreset(cfg), metrics)
        q_dist == [i \in 1..Len(bins) |-> Frac(1, Len(bins))]
        trigger == Trigger(cfg, timeout_events, window_id)
        fi == IF trigger # "none" THEN (ctr.family_index + 1) % Len(cfg.family_ids)
              ELSE ctr.family_index
        vs == IF trigger # "none" THEN ctr.variant_seed + 1 ELSE ctr.variant_seed
        action == action_label(cfg, w, trigger)
        flags == mode_flags(cfg.mode, cfg.adaptive_behavior, pre.enable)
        plain == ~flags.fixed_proto
        family == [p \in paths |->
                     IF plain /\ cfg.adaptive_proto
                     THEN cfg.family_ids[((fi + p) % Len(cfg.family_ids)) + 1]
                     ELSE 1]
        variant == [p \in paths |->
                      IF plain /\ cfg.adaptive_proto THEN (vs + p) % 2 ELSE 0]
        behavior == [size_bins |-> bins, q_dist |-> q_dist,
                     padding_alpha |-> pre.padding, jitter_ms |-> pre.jitter,
                     rate_bytes_per_sec |-> pre.rate, burst_size |-> pre.burst,
                     obfuscation_level |-> cfg.obfuscation_level,
                     enable_shaping |-> flags.enable_shaping,
                     enable_padding |-> flags.enable_padding,
                     enable_pacing |-> flags.enable_pacing,
                     enable_jitter |-> flags.enable_jitter,
                     fixed_q_dist |-> IF ~flags.enable_shaping THEN q_dist ELSE <<>>]
    IN  [out |-> [weights |-> w,
                  behavior_by_path |-> [p \in paths |-> behavior],
                  family_by_path |-> family,
                  variant_by_path |-> variant,
                  obfuscation_level |-> cfg.obfuscation_level,
                  trigger |-> trigger,
                  action |-> action,
                  adaptive_flags |-> [adaptive_paths |-> cfg.adaptive_paths,
                                      adaptive_behavior |-> cfg.adaptive_behavior,
                                      adaptive_proto |-> cfg.adaptive_proto]],
         ctr |-> [family_index |-> fi, variant_seed |-> vs]]

NoConfig == [mode |-> "unset"]
NoOutput == [trigger |-> "unset"]

StInit ==
    /\ st_cfg = NoConfig
    /\ st_ctr = [e \in StEngines |-> [family_index |-> 0, variant_seed |-> 0]]
    /\ st_window_id = 0
    /\ st_in = [metrics |-> EmptyMap, timeout_events |-> 0, window_id |-> 0]
    /\ st_out = [e \in StEngines |-> NoOutput]

\* StrategyEngine.__init__: both engines are built with the same arguments.
StConstruct ==
    /\ st_cfg = NoConfig
    /\ st_cfg' \in StConfigs
    /\ UNCHANGED <<st_ctr, st_window_id, st_in, st_out>>

\* A window tick (start_window_loop): window_id is incremented and both
\* engines, whose counters are equal, evaluate the same arguments; each call
\* draws its own size-bin jitter from the process-wide random generator.
StEvaluate ==
    /\ st_cfg # NoConfig
    /\ st_window_id < MaxTicks
    /\ st_window_id' = st_window_id + 1
    /\ \E m \in StMetrics, t \in StTimeouts :
       \E bins \in [StEngines -> JitteredBins(st_cfg.size_bins)] :
          LET r == [e \in StEngines |->
                      evaluate(st_cfg, st_ctr[e], m, t, st_window_id + 1, bins[e])]
          IN  /\ st_in' = [metrics |-> m, timeout_events |-> t,
                           window_id |-> st_window_id + 1]
              /\ st_out' = [e \in StEngines |-> r[e].out]
              /\ st_ctr' = [e \in StEngines |-> r[e].ctr]
    /\ UNCHANGED st_cfg

\* ------------------------------------------------------------------------
\* EntryNode's downstream reorder buffer (nodes/entry.py)
\* ------------------------------------------------------------------------

\* Number of downstream seqs of one session.
MaxDownSeq == 4

\* One read_path task per path connection (read_from_paths).
DlTasks == {0, 1}

\* The reassembled payload of seq s: one or two bytes that name the seq.
DlPayload(s) == [i \in 1..((s % 2) + 1) |-> s]

\* A reorder buffer that writes whatever is buffered, lowest seq first.
deliverable_unordered(next, pending) ==
    IF pending = EmptyMap THEN {}
    ELSE {CHOOSE k \in DOMAIN pending : \A j \in DOMAIN pending : k <= j}

\* enqueue_downlink's loop condition: the seq the loop pops now, if any
\* (while self._next_down_seq in self._pending_down).
deliverable(next, pending) == {next} \cap DOMAIN pending

\* One pass through the head of enqueue_downlink's while loop by task t,
\* with cursor next and buffer pending: either pop and write the payload
\* and suspend in drain, or leave the loop and return to read_path.
DlLoop(t, next, pending) ==
    LET ready == deliverable(next, pending)
    IN  IF ready # {}
        THEN LET k == CHOOSE x \in ready : TRUE
             IN  /\ pending_down' = Drop(pending, k)
                 /\ dl_written' = Append(dl_written, k)
                 /\ dl_client' = dl_client \o pending[k]
                 /\ dl_pc' = [dl_pc EXCEPT ![t] = "drain"]
        ELSE /\ pending_down' = pending
             /\ dl_pc' = [dl_pc EXCEPT ![t] = "read"]
             /\ UNCHANGED <<dl_written, dl_client>>

\* handle_client resets the cursor and the buffer at session start.
DlInit ==
    /\ next_down_seq = 0
    /\ pending_down = EmptyMap
    /\ dl_pc = [t \in DlTasks |-> "read"]
    /\ dl_arrivals = <<>>
    /\ dl_written = <<>>
    /\ dl_client = <<>>

\* read_path task t completes the payload of seq s and calls
\* enqueue_downlink(s, payload): store it, then enter the loop.
DlEnqueue(t, s) ==
    /\ dl_pc[t] = "read"
    /\ \A i \in 1..Len(dl_arrivals) : dl_arrivals[i] # s
    /\ dl_arrivals' = Append(dl_arrivals, s)
    /\ DlLoop(t, next_down_seq, Put(pending_down, s, DlPayload(s)))
    /\ UNCHANGED next_down_seq

\* Task t resumes from drain: advance the cursor and go round the loop.
DlDrained(t) ==
    /\ dl_pc[t] = "drain"
    /\ next_down_seq' = next_down_seq + 1
    /\ DlLoop(t, next_down_seq + 1, pending_down)
    /\ UNCHANGED dl_arrivals


\* ------------------------------------------------------------------------
\* ExitNode.forward_to_server and the echo server (nodes/exit.py,
\* nodes/server.py)
\* ------------------------------------------------------------------------

\* Number of payloads the handle_middle tasks forward in one run.
MaxForwards == 3

\* One handle_middle task per middle connection.
XsTasks == {0, 1, 2}

\* The reassembled payloads task t may have to forward as its n-th of the
\* run: one or two bytes that name the task and the request.
XsPayloads(t, n) == {<<10 * n + t>>, <<10 * n + t, 10 * n + t + 5>>}

\* forward_to_server without the mutual exclusion.
lock_busy_never(locked, waiters) == FALSE

\* asyncio.Lock.acquire has to wait: the lock is held, or tasks queue.
lock_busy(locked, waiters) == locked \/ waiters # <<>>

\* The first statements of the critical section, run by task t holding
\* the lock: connect first if there is no server_writer (a suspension),
\* else write the payload and suspend in drain.
XsEnter(t, payload) ==
    IF ~server_writer
    THEN /\ xs_pc' = [xs_pc EXCEPT ![t] = "connect"]
         /\ UNCHANGED <<server_writer, srv_in>>
    ELSE /\ srv_in' = srv_in \o payload
         /\ xs_pc' = [xs_pc EXCEPT ![t] = "drain"]
         /\ UNCHANGED server_writer

XsInit ==
    /\ server_locked = FALSE
    /\ lock_waiters = <<>>
    /\ server_writer = FALSE
    /\ srv_in = <<>>
    /\ srv_out = <<>>
    /\ xs_pc = [t \in XsTasks |-> "read"]
    /\ xs_req = [t \in XsTasks |-> <<>>]
    /\ xs_resp = [t \in XsTasks |-> <<>>]
    /\ xs_count = 0

\* handle_middle task t has a complete payload and calls
\* forward_to_server: take the lock and enter, or queue on it.
XsForward(t, payload) ==
    /\ xs_pc[t] = "read"
    /\ xs_count < MaxForwards
    /\ xs_count' = xs_count + 1
    /\ xs_req' = [xs_req EXCEPT ![t] = payload]
    /\ xs_resp' = [xs_resp EXCEPT ![t] = <<>>]
    /\ IF lock_busy(server_locked, lock_waiters)
       THEN /\ lock_waiters' = Append(lock_waiters, t)
            /\ xs_pc' = [xs_pc EXCEPT ![t] = "lock"]
            /\ UNCHANGED <<server_locked, server_writer, srv_in>>
       ELSE /\ server_locked' = TRUE
            /\ XsEnter(t, payload)
            /\ UNCHANGED lock_waiters
    /\ UNCHANGED srv_out

\* The first waiter is woken by a release and takes the lock.
XsAcquire(t) ==
    /\ xs_pc[t] = "lock"
    /\ lock_waiters # <<>>
    /\ Head(lock_waiters) = t
    /\ ~server_locked
    /\ server_locked' = TRUE
    /\ lock_waiters' = Tail(lock_waiters)
    /\ XsEnter(t, xs_req[t])
    /\ UNCHANGED <<srv_out, xs_req, xs_resp, xs_count>>

\* connect_server returns: server_writer is set and the payload is written.
XsConnected(t) ==
    /\ xs_pc[t] = "connect"
    /\ server_writer' = TRUE
    /\ srv_in' = srv_in \o xs_req[t]
    /\ xs_pc' = [xs_pc EXCEPT ![t] = "drain"]
    /\ UNCHANGED <<server_locked, lock_waiters, srv_out, xs_req, xs_resp, xs_count>>

\* drain returns and the task calls readexactly(len(payload)).
XsDrained(t) ==
    /\ xs_pc[t] = "drain"
    /\ xs_pc' = [xs_pc EXCEPT ![t] = "readexactly"]
    /\ UNCHANGED <<server_locked, lock_waiters, server_writer, srv_in, srv_out,
                   xs_req, xs_resp, xs_count>>

\* readexactly returns the first len(payload) bytes the server sent; the
\* lock is released on leaving the with block and send_downlink begins.
XsRead(t) ==
    /\ xs_pc[t] = "readexactly"
    /\ Len(srv_out) >= Len(xs_req[t])
    /\ xs_resp' = [xs_resp EXCEPT ![t] = SubSeq(srv_out, 1, Len(xs_req[t]))]
    /\ srv_out' = SubSeq(srv_out, Len(xs_req[t]) + 1, Len(srv_out))
    /\ server_locked' = FALSE
    /\ xs_pc' = [xs_pc EXCEPT ![t] = "downlink"]
    /\ UNCHANGED <<lock_waiters, server_writer, srv_in, xs_req, xs_count>>

\* send_downlink and send_ack are done; the task reads its next frame.
XsDownlinkDone(t) ==
    /\ xs_pc[t] = "downlink"
    /\ xs_pc' = [xs_pc EXCEPT ![t] = "read"]
    /\ UNCHANGED <<server_locked, lock_waiters, server_writer, srv_in, srv_out,
                   xs_req, xs_resp, xs_count>>

\* The echo server reads what has arrived so far (any non-empty prefix of
\* what was written to it) and writes it back.
ServerEcho(k) ==
    /\ k <= Len(srv_in)
    /\ srv_out' = srv_out \o SubSeq(srv_in, 1, k)
    /\ srv_in' = SubSeq(srv_in, k + 1, Len(srv_in))
    /\ UNCHANGED <<server_locked, lock_waiters, server_writer,
                   xs_pc, xs_req, xs_resp, xs_count>>

\* ------------------------------------------------------------------------
\* The processes of one run: construction of the endpoints and the
\* client's connection (config.py, nodes/entry.py, nodes/exit.py,
\* nodes/client_app.py, start_all.py)
\* ------------------------------------------------------------------------

\* The processes start_all.py launches besides the client application.
SuProcs == {"server", "exit", "middle0", "middle1", "entry"}

\* load_config_from_env: the settings the environment can override.
SuEnvs ==
    [path_count : 1..2,
     obfuscation_level : 0..3,
     mode : {"normal", "baseline_delay", "baseline_padding"},
     adaptive_paths : BOOLEAN,
     adaptive_behavior : BOOLEAN,
     adaptive_proto : BOOLEAN]

\* The messages the client application sends, one after the echo of the
\* other.
ClMessages == <<<<1, 2>>, <<3>>>>

\* The fields of the BehaviorParams dataclass without a default, and the
\* one with a default.
BehaviorParamsRequired ==
    {"size_bins", "q_dist", "padding_alpha", "jitter_ms", "rate_bytes_per_sec",
     "burst_size", "obfuscation_level", "enable_shaping", "enable_padding",
     "enable_pacing", "enable_jitter"}
BehaviorParamsOptional == {"fixed_q_dist"}

\* The parameters of StrategyEngine.__init__, none of which has a default.
StrategyEngineRequired ==
    {"size_bins", "base_padding", "base_jitter", "family_ids", "base_rate",
     "obfuscation_level", "mode", "proto_switch_period", "adaptive_paths",
     "adaptive_behavior", "adaptive_proto"}

\* A call with keyword arguments kwargs of a function whose parameters are
\* required and optional: Python raises TypeError when a required one is
\* missing or an unknown one is passed.
call_with(required, optional, kwargs) ==
    IF required \subseteq kwargs /\ kwargs \subseteq (required \cup optional)
    THEN "ok" ELSE "TypeError"

\* The keyword arguments EntryNode.__init__ passes to BehaviorParams and
\* to StrategyEngine.
EntryBehaviorKwargs ==
    {"size_bins", "q_dist", "padding_alpha", "jitter_ms", "rate_bytes_per_sec",
     "burst_size", "obfuscation_level"}
EntryStrategyKwargs ==
    {"size_bins", "base_padding", "base_jitter", "family_ids", "base_rate",
     "obfuscation_level"}

\* The keyword arguments ExitNode.__init__ passes to them.
ExitBehaviorKwargs == BehaviorParamsRequired
ExitStrategyKwargs == StrategyEngineRequired

\* A node's __init__: it builds the BehaviorParams, then the
\* StrategyEngine; the first exception ends it.
node_init(behavior_kwargs, strategy_kwargs) ==
    IF call_with(BehaviorParamsRequired, BehaviorParamsOptional, behavior_kwargs) # "ok"
    THEN "TypeError"
    ELSE call_with(StrategyEngineRequired, {}, strategy_kwargs)

EntryNode_init == node_init(EntryBehaviorKwargs, EntryStrategyKwargs)
ExitNode_init == node_init(ExitBehaviorKwargs, ExitStrategyKwargs)

SuInit ==
    /\ su_env = [mode |-> "unset"]
    /\ su_proc = [p \in SuProcs |-> "down"]
    /\ cl_pc = "down"
    /\ cl_sent = <<>>
    /\ cl_recv = <<>>

\* The run's environment is fixed before any process starts.
SuLoadEnv(env) ==
    /\ su_env = [mode |-> "unset"]
    /\ su_env' = env
    /\ UNCHANGED <<su_proc, cl_pc, cl_sent, cl_recv>>

\* The processes start_all.py launches for the configuration env.
SuLaunched(env) ==
    IF env.path_count = 2 THEN SuProcs ELSE SuProcs \ {"middle1"}

\* nodes/server.py main and nodes/middle.py main: start serving.
SuStartPlain(p) ==
    /\ su_env # [mode |-> "unset"]
    /\ p \in {"server", "middle0", "middle1"} \cap SuLaunched(su_env)
    /\ su_proc[p] = "down"
    /\ su_proc' = [su_proc EXCEPT ![p] = "up"]
    /\ UNCHANGED <<su_env, cl_pc, cl_sent, cl_recv>>

\* nodes/exit.py main: ExitNode(DEFAULT_CONFIG), then start_server.
SuStartExit ==
    /\ su_env # [mode |-> "unset"]
    /\ su_proc["exit"] = "down"
    /\ su_proc' = [su_proc EXCEPT
                     !["exit"] = IF ExitNode_init = "ok" THEN "up" ELSE "exited"]
    /\ UNCHANGED <<su_env, cl_pc, cl_sent, cl_recv>>

\* nodes/entry.py main: EntryNode(config), then start_server; an exception
\* in the constructor ends the process before it listens.
SuStartEntry ==
    /\ su_env # [mode |-> "unset"]
    /\ su_proc["entry"] = "down"
    /\ su_proc' = [su_proc EXCEPT
                     !["entry"] = IF EntryNode_init = "ok" THEN "up" ELSE "exited"]
    /\ UNCHANGED <<su_env, cl_pc, cl_sent, cl_recv>>

\* start_all.py launches the client application last, after the server,
\* the exit, the middles and the entry. nodes/client_app.py main:
\* open_connection to the entry's port; the connection is refused, and the
\* application ends, when no entry listens.
SuStartClient ==
    /\ su_env # [mode |-> "unset"]
    /\ \A p \in SuLaunched(su_env) : su_proc[p] # "down"
    /\ cl_pc = "down"
    /\ cl_pc' = IF su_proc["entry"] = "up" THEN "connected" ELSE "failed"
    /\ UNCHANGED <<su_env, su_proc, cl_sent, cl_recv>>

\* ------------------------------------------------------------------------
\* ExitNode's window loop (nodes/exit.py)
\* ------------------------------------------------------------------------

\* Bound: window ticks of the exit.
MaxExitTicks == 5

\* The configurations an exit is built with: those of the controller, with
\* the PROTO_SWITCH_PERIOD of the environment.
XwConfigs ==
    { [c EXCEPT !.proto_switch_period = k] : c \in StConfigs, k \in {2, 3} }

\* range(len(self.active_middle_ports)): a baseline mode keeps the first
\* middle port alone.
XwPaths(cfg) ==
    IF cfg.mode \in {"baseline_delay", "baseline_padding"} THEN {0} ELSE {0, 1}

\* base_params of ExitNode.__init__
XwBaseParams(cfg) ==
    [size_bins |-> cfg.size_bins,
     q_dist |-> [i \in 1..Len(cfg.size_bins) |-> Frac(1, Len(cfg.size_bins))],
     padding_alpha |-> cfg.base_padding, jitter_ms |-> cfg.base_jitter,
     rate_bytes_per_sec |-> cfg.base_rate, burst_size |-> BaseBurst,
     obfuscation_level |-> cfg.obfuscation_level,
     enable_shaping |-> TRUE, enable_padding |-> TRUE,
     enable_pacing |-> TRUE, enable_jitter |-> TRUE, fixed_q_dist |-> <<>>]

\* BehaviorShaper.update_q_dist(path_id, drift, seed): the new distribution
\* is a function of the base distribution, the drift (in hundredths) and the
\* seed of its private generator, and is held as these three.
update_q_dist(params, drift, seed) ==
    [base |-> IF params.fixed_q_dist # <<>> THEN params.fixed_q_dist
              ELSE params.q_dist,
     drift |-> drift, seed |-> seed]

\* The drift start_window_loop derives from the output's obfuscation level.
XwDrift(level) ==
    IF level = 0 THEN 0 ELSE IF level = 1 THEN 2 ELSE IF level = 2 THEN 5 ELSE 8

\* The record start_window_loop writes for one path.
XwLogEntry(w, p, metrics, out, states) ==
    [window_id |-> w, path_id |-> p,
     obfuscation_level |-> out.obfuscation_level,
     alpha_padding |-> out.behavior_by_path[p].padding_alpha,
     rate_bytes_per_sec |-> out.behavior_by_path[p].rate_bytes_per_sec,
     jitter_ms |-> out.behavior_by_path[p].jitter_ms,
     proto_family |-> out.family_by_path[p],
     proto_variant |-> out.variant_by_path[p],
     padding_bytes |-> states[p].padding_bytes,
     real_bytes |-> states[p].real_bytes,
     rtt_ms |-> metrics[p].rtt_ms, loss |-> metrics[p].loss,
     trigger |-> out.trigger, action |-> out.action,
     adaptive_flags |-> out.adaptive_flags]

RECURSIVE XwLogEntries(_, _, _, _, _)
\* The records of one tick, in ascending path order.
XwLogEntries(w, ps, metrics, out, states) ==
    IF ps = {} THEN <<>>
    ELSE LET p == CHOOSE q \in ps : \A r \in ps : q <= r
         IN  <<XwLogEntry(w, p, metrics, out, states)>>
             \o XwLogEntries(w, ps \ {p}, metrics, out, states)

XwInit ==
    /\ xw_cfg = NoConfig
    /\ xw_window_task = FALSE
    /\ xw_window_id = 0
    /\ xw_ctr = [family_index |-> 0, variant_seed |-> 0]
    /\ xw_weights = EmptyMap
    /\ xw_family_by_path = EmptyMap
    /\ xw_variant_by_path = EmptyMap
    /\ xw_params = EmptyMap
    /\ xw_q_dist = EmptyMap
    /\ xw_path_states = EmptyMap
    /\ xw_proto = [family_id |-> 1, window_id |-> 0, variant_by_path |-> EmptyMap]
    /\ xw_log = <<>>
    /\ xw_emit = <<>>

\* ExitNode.__init__(config)
XwConstruct ==
    /\ xw_cfg = NoConfig
    /\ \E cfg \in XwConfigs :
          /\ xw_cfg' = cfg
          /\ xw_weights' = [p \in XwPaths(cfg) |-> WeightOne]
          /\ xw_family_by_path' = [p \in XwPaths(cfg) |-> 1]
          /\ xw_variant_by_path' = [p \in XwPaths(cfg) |-> 0]
          /\ xw_params' = [p \in XwPaths(cfg) |-> XwBaseParams(cfg)]
          /\ xw_q_dist' = [p \in XwPaths(cfg) |->
                              [base |-> XwBaseParams(cfg).q_dist,
                               drift |-> 0, seed |-> 0]]
          /\ xw_path_states' = [p \in XwPaths(cfg) |-> BehaviorState0(0)]
    /\ UNCHANGED <<xw_window_task, xw_window_id, xw_ctr, xw_proto, xw_log,
                   xw_emit>>

\* handle_middle, up to its first read: the first connection of a middle
\* creates the window task.
XwMiddleConnected ==
    /\ xw_cfg # NoConfig
    /\ ~xw_window_task
    /\ xw_window_task' = TRUE
    /\ UNCHANGED <<xw_cfg, xw_window_id, xw_ctr, xw_weights, xw_family_by_path,
                   xw_variant_by_path, xw_params, xw_q_dist, xw_path_states,
                   xw_proto, xw_log, xw_emit>>

\* One round of start_window_loop. The exit never calls mark_sent or
\* mark_ack, so the snapshot is that of the statistics of the constructor;
\* timeout_events is the literal 0.
XwTick ==
    /\ xw_window_task
    /\ xw_window_id < MaxExitTicks
    /\ \E bins \in JitteredBins(xw_cfg.size_bins) :
          LET w == xw_window_id + 1
              paths == XwPaths(xw_cfg)
              metrics == snapshot([p \in paths |-> PathStats0])
              r == evaluate(xw_cfg, xw_ctr, metrics, 0, w, bins)
              out == r.out
              states == start_window(xw_path_states, w)
          IN  /\ xw_window_id' = w
              /\ xw_ctr' = r.ctr
              /\ xw_weights' = update_weights(xw_weights, out.weights)
              /\ xw_family_by_path' = out.family_by_path
              /\ xw_variant_by_path' = out.variant_by_path
              /\ xw_params' = out.behavior_by_path
              /\ xw_q_dist' =
                    IF out.adaptive_flags.adaptive_behavior
                    THEN [p \in paths |->
                            update_q_dist(out.behavior_by_path[p],
                                          XwDrift(out.obfuscation_level),
                                          w * 100 + p)]
                    ELSE xw_q_dist
              /\ xw_path_states' = states
              /\ xw_proto' = [family_id |-> 1, window_id |-> w,
                              variant_by_path |-> out.variant_by_path]
              /\ xw_log' = xw_log \o XwLogEntries(w, paths, metrics, out, states)
    /\ UNCHANGED <<xw_cfg, xw_window_task, xw_emit>>

\* ------------------------------------------------------------------------
\* Protocol families and payload obfuscation (profiles.py, obfuscation.py)
\* ------------------------------------------------------------------------

\* Flags and directions of frames.py
FLAG_PADDING == 1
FLAG_HANDSHAKE == 2
FLAG_FRAGMENT == 4
FLAG_REDUNDANT == 8
FLAG_ACK == 16
DIR_UP == 0
DIR_DOWN == 1

\* default_profiles(): family_id -> the obfuscation mode of its variants and,
\* per variant (the list index is the variant_id), extra_header_range and
\* padding_header.
default_profiles ==
    [f \in {1, 2, 3} |->
        IF f = 1
        THEN <<[variant_id |-> 0, mode |-> "none", low |-> 0, high |-> 4,
                padding_header |-> FALSE],
               [variant_id |-> 1, mode |-> "none", low |-> 1, high |-> 6,
                padding_header |-> TRUE]>>
        ELSE IF f = 2
        THEN <<[variant_id |-> 0, mode |-> "xor", low |-> 2, high |-> 8,
                padding_header |-> FALSE],
               [variant_id |-> 1, mode |-> "xor", low |-> 4, high |-> 10,
                padding_header |-> TRUE]>>
        ELSE <<[variant_id |-> 0, mode |-> "xor_reverse", low |-> 4, high |-> 12,
                padding_header |-> TRUE],
               [variant_id |-> 1, mode |-> "xor_reverse", low |-> 2, high |-> 12,
                padding_header |-> FALSE]>>]

\* family.variants[variant_id % len(family.variants)]
pick_variant(family_id, variant_id) ==
    default_profiles[family_id][(variant_id % Len(default_profiles[family_id])) + 1]

RECURSIVE BitXor(_, _)
\* a ^ b on non-negative integers
BitXor(a, b) ==
    IF a = 0 THEN b
    ELSE IF b = 0 THEN a
    ELSE (((a % 2) + (b % 2)) % 2) + 2 * BitXor(a \div 2, b \div 2)

\* bytes([b ^ key for b in data])
XorBytes(data, key) == [i \in 1..Len(data) |-> BitXor(data[i], key)]

\* data[::-1]
Reversed(data) == [i \in 1..Len(data) |-> data[Len(data) + 1 - i]]

\* ProtoFamily.encode_payload(payload, variant), key being the value
\* random.randint(1, 255) returns.
family_encode_payload(payload, variant, key) ==
    IF payload = <<>> THEN payload
    ELSE IF variant.mode = "none" THEN payload
    ELSE LET obfuscated == XorBytes(payload, key)
         IN  <<key>> \o (IF variant.mode = "xor_reverse" THEN Reversed(obfuscated)
                         ELSE obfuscated)

\* A flawed decoder that does not undo the reversal.
family_decode_payload_unreversed(payload, variant) ==
    IF payload = <<>> THEN payload
    ELSE IF variant.mode = "none" THEN payload
    ELSE XorBytes(Tail(payload), Head(payload))

\* ProtoFamily.decode_payload(payload, variant)
family_decode_payload(payload, variant) ==
    IF payload = <<>> THEN payload
    ELSE IF variant.mode = "none" THEN payload
    ELSE LET key == Head(payload)
             data == IF variant.mode = "xor_reverse" THEN Reversed(Tail(payload))
                     ELSE Tail(payload)
         IN  XorBytes(data, key)

\* The fill of random.randbytes in an extra header.
RandByte == 9
\* The values pick_extra_header can return for a variant: the variant_id, a
\* length-prefixed run of 1 or 4 bytes when padding_header is set, and low or
\* high further bytes.
ExtraHeaders(variant) ==
    { <<variant.variant_id>> \o pad \o [i \in 1..n |-> RandByte] :
        pad \in (IF variant.padding_header
                 THEN { <<k>> \o [i \in 1..k |-> RandByte] : k \in {1, 4} }
                 ELSE { <<>> }),
        n \in {variant.low, variant.high} }

\* ProtoObfuscator.apply(frame, family_id, variant_id), extra being what
\* pick_extra_header returned.
apply(frame, family_id, variant_id, extra) ==
    [frame EXCEPT !.proto_id = family_id, !.extra_header = extra]

\* ProtoObfuscator.encode_payload(frame, family_id, variant_id)
encode_payload(frame, family_id, variant_id, key) ==
    IF family_id \notin DOMAIN default_profiles THEN frame
    ELSE [frame EXCEPT !.payload =
            family_encode_payload(@, pick_variant(family_id, variant_id), key)]

\* ProtoObfuscator.decode_payload(frame)
decode_payload(frame) ==
    IF frame.proto_id \notin DOMAIN default_profiles THEN frame
    ELSE LET variant_id == IF frame.extra_header # <<>> THEN frame.extra_header[1]
                           ELSE 0
         IN  [frame EXCEPT !.payload =
                family_decode_payload(@, pick_variant(frame.proto_id, variant_id))]

\* The payloads a sender obfuscates: empty, single bytes at both ends of the
\* range, a palindrome and runs that are not.
ObPayloads == { <<>>, <<0>>, <<255>>, <<1, 2>>, <<7, 0, 7>>, <<128, 64, 255>> }
ObKeys == 1..255
NoFrame == [flags |-> -1]

\* Frame(...) as send_chunk and send_downlink build it for one fragment.
DataFrame(seq, direction, path_id, window_id, family_id, frag_id, frag_total, payload) ==
    [session_id |-> 1, seq |-> seq, direction |-> direction, path_id |-> path_id,
     window_id |-> window_id, proto_id |-> family_id, flags |-> FLAG_FRAGMENT,
     frag_id |-> frag_id, frag_total |-> frag_total, payload |-> payload,
     extra_header |-> <<>>]

ObInit ==
    /\ ob_in = NoFrame
    /\ ob_key = 0
    /\ ob_wire = NoFrame
    /\ ob_out = NoFrame

\* A sender builds a frame for a payload, applies the cover identity of the
\* path's family and variant and encodes the payload (send_chunk and
\* send_downlink, per fragment).
ObSend ==
    /\ ob_wire = NoFrame
    /\ \E family_id \in DOMAIN default_profiles, variant_id \in {0, 1},
          payload \in ObPayloads, key \in ObKeys :
       \E extra \in ExtraHeaders(pick_variant(family_id, variant_id)) :
          LET frame == DataFrame(0, DIR_UP, 0, 0, family_id, 0, 1, payload)
          IN  /\ ob_in' = frame
              /\ ob_key' = key
              /\ ob_wire' = encode_payload(apply(frame, family_id, variant_id, extra),
                                           family_id, variant_id, key)
    /\ ob_out' = NoFrame

\* The receiver decodes the frame it read (handle_middle, read_path).
ObReceive ==
    /\ ob_wire # NoFrame
    /\ ob_out = NoFrame
    /\ ob_out' = decode_payload(ob_wire)
    /\ UNCHANGED <<ob_in, ob_key, ob_wire>>

\* The next frame.
ObReset ==
    /\ ob_out # NoFrame
    /\ ob_in' = NoFrame
    /\ ob_key' = 0
    /\ ob_wire' = NoFrame
    /\ ob_out' = NoFrame

\* ------------------------------------------------------------------------
\* The frame codec (frames.py)
\* ------------------------------------------------------------------------

\* Bound: frames written to the stream.
MaxWireFrames == 2

\* HEADER_STRUCT.size of "!I Q b B I H B H H I"
HEADER_SIZE == 29
\* The largest value used in a 4- or 8-byte field; larger values are beyond
\* the integers of the model checker.
MaxInt == 2147483647

RECURSIVE PackBE(_, _)
\* struct.pack of an unsigned field of n bytes, big-endian
PackBE(v, n) ==
    IF n = 0 THEN <<>> ELSE PackBE(v \div 256, n - 1) \o <<v % 256>>

RECURSIVE UnpackBE(_)
\* struct.unpack of an unsigned big-endian field
UnpackBE(bytes) ==
    IF bytes = <<>> THEN 0
    ELSE UnpackBE(SubSeq(bytes, 1, Len(bytes) - 1)) * 256 + bytes[Len(bytes)]

\* struct.pack / struct.unpack of the signed byte "b"
PackSigned(v) == <<(v + 256) % 256>>
UnpackSigned(bytes) == IF bytes[1] >= 128 THEN bytes[1] - 256 ELSE bytes[1]

\* Frame.encode()
Frame_encode(frame) ==
    PackBE(frame.session_id, 4) \o PackBE(frame.seq, 8)
    \o PackSigned(frame.direction) \o PackBE(frame.path_id, 1)
    \o PackBE(frame.window_id, 4) \o PackBE(frame.proto_id, 2)
    \o PackBE(Len(frame.extra_header), 1)
    \o PackBE(frame.frag_id, 2) \o PackBE(frame.frag_total, 2)
    \o PackBE(Len(frame.payload), 4)
    \o frame.extra_header \o PackBE(frame.flags, 1) \o frame.payload

\* The header fields read_from unpacks from the first HEADER_SIZE bytes.
unpack_header(bytes) ==
    [session_id |-> UnpackBE(SubSeq(bytes, 1, 4)),
     seq |-> UnpackBE(SubSeq(bytes, 5, 12)),
     direction |-> UnpackSigned(SubSeq(bytes, 13, 13)),
     path_id |-> UnpackBE(SubSeq(bytes, 14, 14)),
     window_id |-> UnpackBE(SubSeq(bytes, 15, 18)),
     proto_id |-> UnpackBE(SubSeq(bytes, 19, 20)),
     extra_len |-> UnpackBE(SubSeq(bytes, 21, 21)),
     frag_id |-> UnpackBE(SubSeq(bytes, 22, 23)),
     frag_total |-> UnpackBE(SubSeq(bytes, 24, 25)),
     payload_len |-> UnpackBE(SubSeq(bytes, 26, 29))]

\* The bytes one read_from consumes from the stream, or 0 while the stream
\* does not hold a whole frame and a readexactly stays suspended.
frame_size(stream) ==
    IF Len(stream) < HEADER_SIZE THEN 0
    ELSE LET h == unpack_header(stream)
             n == HEADER_SIZE + h.extra_len + 1 + h.payload_len
         IN  IF Len(stream) < n THEN 0 ELSE n

\* A flawed reader that takes the flags byte right after the fixed header.
read_from_flags_first(stream) ==
    LET h == unpack_header(stream)
        a == HEADER_SIZE + 1
        b == a + h.extra_len
    IN  [session_id |-> h.session_id, seq |-> h.seq, direction |-> h.direction,
         path_id |-> h.path_id, window_id |-> h.window_id,
         proto_id |-> h.proto_id, flags |-> UnpackBE(SubSeq(stream, a, a)),
         frag_id |-> h.frag_id, frag_total |-> h.frag_total,
         payload |-> SubSeq(stream, b + 1, b + h.payload_len),
         extra_header |-> SubSeq(stream, a + 1, b)]

\* Frame.read_from(reader) on a stream that holds a whole frame: the four
\* readexactly calls and the Frame they build.
read_from(stream) ==
    LET h == unpack_header(stream)
        a == HEADER_SIZE + h.extra_len
    IN  [session_id |-> h.session_id, seq |-> h.seq, direction |-> h.direction,
         path_id |-> h.path_id, window_id |-> h.window_id,
         proto_id |-> h.proto_id, flags |-> UnpackBE(SubSeq(stream, a + 1, a + 1)),
         frag_id |-> h.frag_id, frag_total |-> h.frag_total,
         payload |-> SubSeq(stream, a + 2, a + 1 + h.payload_len),
         extra_header |-> SubSeq(stream, HEADER_SIZE + 1, a)]

\* Well-formed frames: a plain one, each field in turn at the ends of its
\* width (up to MaxInt), extra headers and payloads that are empty, short,
\* and as long as one and two length bytes take, and frames whose extra
\* header or payload starts with a byte that could pass for the flags.
WireBase ==
    [session_id |-> 1, seq |-> 0, direction |-> DIR_UP, path_id |-> 0,
     window_id |-> 0, proto_id |-> 1, flags |-> FLAG_FRAGMENT, frag_id |-> 0,
     frag_total |-> 1, payload |-> <<>>, extra_header |-> <<>>]
WireFrames ==
    {WireBase}
    \cup { [WireBase EXCEPT !.session_id = v] : v \in {0, 256, MaxInt} }
    \cup { [WireBase EXCEPT !.seq = v] : v \in {255, 65536, MaxInt} }
    \cup { [WireBase EXCEPT !.direction = v] : v \in {-128, -1, DIR_DOWN, 127} }
    \cup { [WireBase EXCEPT !.path_id = v] : v \in {1, 255} }
    \cup { [WireBase EXCEPT !.window_id = v] : v \in {1, 16777216} }
    \cup { [WireBase EXCEPT !.proto_id = v] : v \in {0, 256, 65535} }
    \cup { [WireBase EXCEPT !.flags = v] : v \in {0, FLAG_FRAGMENT + FLAG_PADDING, 255} }
    \cup { [WireBase EXCEPT !.frag_id = v, !.frag_total = 65535] : v \in {255, 65534} }
    \cup { [WireBase EXCEPT !.payload = v] :
              v \in {<<0>>, <<1, 2, 3>>, [i \in 1..256 |-> i % 256]} }
    \cup { [WireBase EXCEPT !.extra_header = v] :
              v \in {<<1>>, <<0, 9, 9>>, [i \in 1..255 |-> 255 - i]} }
    \cup { [WireBase EXCEPT !.extra_header = <<FLAG_ACK, 7>>, !.flags = v,
                            !.payload = <<FLAG_PADDING, 8>>] :
              v \in {FLAG_FRAGMENT, FLAG_HANDSHAKE} }
    \cup { [session_id |-> MaxInt, seq |-> MaxInt, direction |-> -128,
            path_id |-> 255, window_id |-> MaxInt, proto_id |-> 65535,
            flags |-> 255, frag_id |-> 65535, frag_total |-> 65535,
            payload |-> <<255, 255>>, extra_header |-> <<255>>] }

WrInit ==
    /\ wr_sent = <<>>
    /\ wr_stream = <<>>
    /\ wr_read = <<>>

\* writer.write(frame.encode())
WrWrite ==
    /\ Len(wr_sent) < MaxWireFrames
    /\ \E frame \in WireFrames :
          /\ wr_sent' = Append(wr_sent, frame)
          /\ wr_stream' = wr_stream \o Frame_encode(frame)
    /\ UNCHANGED wr_read

\* frame = await Frame.read_from(reader)
WrReadFrom ==
    /\ frame_size(wr_stream) > 0
    /\ wr_read' = Append(wr_read, read_from(wr_stream))
    /\ wr_stream' = SubSeq(wr_stream, frame_size(wr_stream) + 1, Len(wr_stream))
    /\ UNCHANGED wr_sent

\* ------------------------------------------------------------------------
\* One client session through the tunnel, within one window and before
\* the first rotation (every path on family 1, variant 0):
\* EntryNode.handle_client,
\* send_chunk and read_path (nodes/entry.py), the middles' relays
\* (nodes/middle.py), ExitNode.handle_middle, forward_to_server,
\* send_downlink and send_ack (nodes/exit.py). The entry is taken as its
\* constructor's body leaves it; time stands still, so every rtt is 0.
\* ------------------------------------------------------------------------

\* Bound: the chunks handle_client reads from the client in the session.
MaxChunks == 1
\* How many padding frames follow one data frame: none while the burst is
\* not full or the budget is spent, else as many as the budget allows.
TnPadCounts == {0, 1}
\* What make_padding_frames returns in the rounds of one for loop, as
\* counts: nothing without enable_padding, and at most one burst fills
\* during a call.
TnPads(fragments, enable_padding) ==
    { pads \in [1..Len(fragments) -> TnPadCounts] :
        IF enable_padding THEN SeqSum(pads) <= 1 ELSE SeqSum(pads) = 0 }

\* family_by_path and variant_by_path as the constructors fill them.
TnFamily == 1
TnVariant == 0
\* The session id the entry drew.
TnSession == 1
\* What pick_extra_header returns for variant 0 when it draws no further
\* bytes: the variant_id alone.
TnExtra == <<TnVariant>>

\* config.middle_ports: one path (PATH_COUNT = 1) or two.
TnPathSets == { {0}, {0, 1} }
\* What reader.read(2048) returns, and the size bins, in a unit in which
\* the chunk is one or two bins long.
TnChunks == { <<6, 7>> }
TnBins == {1, 2}

RECURSIVE BitAnd(_, _)
\* a & b on non-negative integers
BitAnd(a, b) ==
    IF a = 0 \/ b = 0 THEN 0
    ELSE ((a % 2) * (b % 2)) + 2 * BitAnd(a \div 2, b \div 2)

RECURSIVE BitOr(_, _)
\* a | b on non-negative integers
BitOr(a, b) ==
    IF a = 0 THEN b
    ELSE IF b = 0 THEN a
    ELSE (IF (a % 2) + (b % 2) > 0 THEN 1 ELSE 0) + 2 * BitOr(a \div 2, b \div 2)

\* A flawed filter that only knows the three flags on their own.
exit_skips_exact(frame) ==
    frame.flags \in {FLAG_PADDING, FLAG_HANDSHAKE, FLAG_ACK}

\* handle_middle: frame.flags & (FLAG_PADDING | FLAG_HANDSHAKE | FLAG_ACK)
exit_skips(frame) ==
    BitAnd(frame.flags, BitOr(FLAG_PADDING, BitOr(FLAG_HANDSHAKE, FLAG_ACK))) # 0

\* read_path: frame.flags & (FLAG_PADDING | FLAG_HANDSHAKE)
entry_skips(frame) ==
    BitAnd(frame.flags, BitOr(FLAG_PADDING, FLAG_HANDSHAKE)) # 0

\* The handshake template of family 1.
TnHandshake ==
    << [direction |-> DIR_UP, size |-> 32],
       [direction |-> DIR_DOWN, size |-> 24] >>

\* build_handshake_frames(session_id, window_id, family, path_id, variant_id),
\* extra being what pick_extra_header returned.
build_handshake_frames(session_id, window_id, path_id, extra) ==
    [i \in 1..Len(TnHandshake) |->
        [session_id |-> session_id, seq |-> i - 1,
         direction |-> TnHandshake[i].direction, path_id |-> path_id,
         window_id |-> window_id, proto_id |-> TnFamily,
         flags |-> FLAG_HANDSHAKE, frag_id |-> 0, frag_total |-> 1,
         payload |-> [k \in 1..TnHandshake[i].size |-> RandByte],
         extra_header |-> extra]]

\* The frame make_padding_frames builds from template_frame.
padding_frame(template_frame, payload) ==
    [session_id |-> template_frame.session_id, seq |-> template_frame.seq,
     direction |-> template_frame.direction, path_id |-> template_frame.path_id,
     window_id |-> template_frame.window_id, proto_id |-> template_frame.proto_id,
     flags |-> BitOr(template_frame.flags, FLAG_PADDING),
     frag_id |-> 0, frag_total |-> 1, payload |-> payload,
     extra_header |-> template_frame.extra_header]

\* The frame send_ack builds for the frame that completed a seq.
ack_frame_short_seq(frame) ==
    [session_id |-> frame.session_id, seq |-> frame.seq, direction |-> DIR_DOWN,
     path_id |-> frame.path_id, window_id |-> frame.window_id,
     proto_id |-> frame.proto_id, flags |-> FLAG_ACK, frag_id |-> 0,
     frag_total |-> 1, payload |-> PackBE(frame.seq, 4), extra_header |-> <<>>]
ack_frame(frame) ==
    [session_id |-> frame.session_id, seq |-> frame.seq, direction |-> DIR_DOWN,
     path_id |-> frame.path_id, window_id |-> frame.window_id,
     proto_id |-> frame.proto_id, flags |-> FLAG_ACK, frag_id |-> 0,
     frag_total |-> 1, payload |-> PackBE(frame.seq, 8), extra_header |-> <<>>]

RECURSIVE Fragmentations(_, _, _)
\* The fragment lists the while loop of send_chunk and send_downlink can
\* build from remaining: each round draws a path and a target_len, cuts
\* remaining[:target_len] and goes on with remaining[target_len:].
Fragmentations(remaining, paths, lens) ==
    IF remaining = <<>> THEN { <<>> }
    ELSE UNION {
           { <<[path_id |-> p, payload |-> SubSeq(remaining, 1, Min(n, Len(remaining)))]>>
               \o rest :
             rest \in Fragmentations(
                        SubSeq(remaining, Min(n, Len(remaining)) + 1, Len(remaining)),
                        paths, lens) } :
           p \in paths, n \in lens }

\* writer.write(frame.encode()) on the connection of path p: the middle
\* relays the bytes while it is connected, and they are lost once it is not.
TnWrite(queue, link, p, frames) ==
    IF link[p] = "up" THEN [queue EXCEPT ![p] = @ \o frames] ELSE queue

RECURSIVE WriteAll(_, _, _)
\* The connections after the writes of a for loop, in order; a write is the
\* path and the frames written to it (a data frame and its padding).
WriteAll(queue, link, writes) ==
    IF writes = <<>> THEN queue
    ELSE WriteAll(TnWrite(queue, link, Head(writes).path_id, Head(writes).frames),
                  link, Tail(writes))

\* What an observer of the connection sees of a frame's header.
TnHeader(frame) ==
    [session_id |-> frame.session_id, direction |-> frame.direction,
     seq |-> frame.seq, flags |-> frame.flags, frag_id |-> frame.frag_id,
     frag_total |-> frame.frag_total]

\* The headers of the frames of a list of writes.
TnHeaders(writes) ==
    UNION { { TnHeader(writes[i].frames[k]) : k \in 1..Len(writes[i].frames) } :
            i \in 1..Len(writes) }

\* A flawed for loop that stamps each frame with the number of fragments
\* written so far instead of len(fragments).
fragment_writes_running_total(seq, direction, window_id, fragments, pads) ==
    [i \in 1..Len(fragments) |->
        LET frame == encode_payload(
                        apply(DataFrame(seq, direction, fragments[i].path_id,
                                        window_id, TnFamily, i - 1,
                                        i, fragments[i].payload),
                              TnFamily, TnVariant, TnExtra),
                        TnFamily, TnVariant, RandByte)
        IN  [path_id |-> fragments[i].path_id,
             frames |-> <<frame>> \o
                          [k \in 1..pads[i] |-> padding_frame(frame, <<RandByte>>)]]]

\* The for loop of send_chunk and send_downlink: total = len(fragments);
\* for frag_id, (path_id, payload) in enumerate(fragments), the frame built,
\* given its cover identity and encoded, then the pads[frag_id] padding
\* frames that make_padding_frames returns for it.
fragment_writes(seq, direction, window_id, fragments, pads) ==
    [i \in 1..Len(fragments) |->
        LET frame == encode_payload(
                        apply(DataFrame(seq, direction, fragments[i].path_id,
                                        window_id, TnFamily, i - 1,
                                        Len(fragments), fragments[i].payload),
                              TnFamily, TnVariant, TnExtra),
                        TnFamily, TnVariant, RandByte)
        IN  [path_id |-> fragments[i].path_id,
             frames |-> <<frame>> \o
                          [k \in 1..pads[i] |-> padding_frame(frame, <<RandByte>>)]]]

RECURSIVE mark_sent_each(_, _, _)
\* self.scheduler.mark_sent(path_id, seq) in every round of the for loop.
mark_sent_each(st, seq, fragments) ==
    IF fragments = <<>> THEN st
    ELSE mark_sent_each(mark_sent(st, Head(fragments).path_id, seq, 0),
                        seq, Tail(fragments))

\* The first write of a list that goes to a connection its middle has
\* closed, 0 if there is none.
FirstDead(writes, link) ==
    LET dead == { i \in 1..Len(writes) : link[writes[i].path_id] = "down" }
    IN  IF dead = {} THEN 0 ELSE CHOOSE i \in dead : \A j \in dead : i <= j

RECURSIVE drain_pending(_, _, _)
\* while self._next_down_seq in self._pending_down: pop, write, advance
drain_pending(next, pending, out) ==
    IF next \in DOMAIN pending
    THEN drain_pending(next + 1, Drop(pending, next), out \o pending[next])
    ELSE [next |-> next, pending |-> pending, out |-> out]

\* enqueue_downlink(seq, payload, client_writer), run to its return.
enqueue_downlink(next, pending, out, seq, payload) ==
    drain_pending(next, Put(pending, seq, payload), out)

TnInit ==
    /\ tn_cfg = NoConfig
    /\ tn_seq_counter = 0
    /\ tn_stats = EmptyMap
    /\ tn_up = EmptyMap
    /\ tn_down = EmptyMap
    /\ tn_link = EmptyMap
    /\ tn_path_writers = {}
    /\ tn_exit = EmptyMap
    /\ tn_exit_fb = [buffers |-> EmptyMap, totals |-> EmptyMap]
    /\ tn_reader = EmptyMap
    /\ tn_entry_fb = [buffers |-> EmptyMap, totals |-> EmptyMap]
    /\ tn_next_down_seq = 0
    /\ tn_pending_down = EmptyMap
    /\ tn_client = <<>>
    /\ tn_added = [exit |-> NoFrame, entry |-> NoFrame]
    /\ tn_app = [exit |-> NoFrame, entry |-> NoFrame]
    /\ tn_written = {}
    /\ tn_late_writes = {}
    /\ tn_exit_log = <<>>

\* The run's paths and the behaviour flags of the window, then
\* handle_client up to its read loop: connect_paths opens one connection per
\* middle, each middle opens its connection to the exit, whose handle_middle
\* starts, and send_handshake writes the handshake frames of every path.
TnConnect(paddings) ==
    /\ tn_cfg = NoConfig
    /\ \E paths \in TnPathSets, shaping \in BOOLEAN, padding \in paddings :
          LET hs == [p \in paths |->
                       build_handshake_frames(TnSession, 0, p, TnExtra)]
          IN  /\ tn_cfg' = [paths |-> paths, enable_shaping |-> shaping,
                             enable_padding |-> padding]
              /\ tn_up' = hs
              /\ tn_written' = UNION { { TnHeader(hs[p][i]) : i \in 1..Len(hs[p]) } :
                                       p \in paths }
              /\ tn_down' = [p \in paths |-> <<>>]
              /\ tn_link' = [p \in paths |-> "up"]
              /\ tn_stats' = [p \in paths |-> PathStats0]
              /\ tn_exit' = [p \in paths |-> "read"]
              /\ tn_reader' = [p \in paths |-> "read"]
    /\ UNCHANGED <<tn_seq_counter, tn_path_writers, tn_exit_fb, tn_entry_fb,
                   tn_next_down_seq, tn_pending_down, tn_client, tn_added,
                   tn_app, tn_late_writes, tn_exit_log>>

\* The client application writes its next message once it has read the
\* echo of the last one, a message being short enough for one
\* reader.read(2048); send_chunk takes the seq, cuts the chunk into
\* fragments, a path drawn by choose_path for each, and writes them.
TnSendChunk ==
    /\ tn_cfg # NoConfig
    /\ tn_seq_counter < MaxChunks
    /\ tn_next_down_seq = tn_seq_counter
    /\ \E data \in TnChunks :
       \E fragments \in Fragmentations(data, tn_cfg.paths, TnBins) :
       \E pads \in TnPads(fragments, tn_cfg.enable_padding) :
          LET seq == tn_seq_counter
              writes == fragment_writes(seq, DIR_UP, 0, fragments, pads)
          IN  /\ tn_stats' = mark_sent_each(tn_stats, seq, fragments)
              /\ tn_up' = WriteAll(tn_up, tn_link, writes)
              /\ tn_written' = tn_written \cup TnHeaders(writes)
    /\ tn_seq_counter' = tn_seq_counter + 1
    /\ UNCHANGED <<tn_cfg, tn_down, tn_link, tn_path_writers, tn_exit,
                   tn_exit_fb, tn_reader, tn_entry_fb, tn_next_down_seq,
                   tn_pending_down, tn_client, tn_added, tn_app,
                   tn_late_writes, tn_exit_log>>

\* One middle of the run goes away: its bridges close both connections, and
\* what it had read and not yet relayed is lost.
TnMiddleDisconnect(p) ==
    /\ p \in DOMAIN tn_link
    /\ \A q \in DOMAIN tn_link : tn_link[q] = "up"
    /\ tn_link' = [tn_link EXCEPT ![p] = "down"]
    /\ \E i \in 0..Len(tn_up[p]), j \in 0..Len(tn_down[p]) :
          /\ tn_up' = [tn_up EXCEPT ![p] = SubSeq(@, 1, i)]
          /\ tn_down' = [tn_down EXCEPT ![p] = SubSeq(@, 1, j)]
    /\ UNCHANGED <<tn_cfg, tn_seq_counter, tn_stats, tn_path_writers, tn_exit,
                   tn_exit_fb, tn_reader, tn_entry_fb, tn_next_down_seq,
                   tn_pending_down, tn_client, tn_added, tn_app, tn_written,
                   tn_late_writes, tn_exit_log>>

\* The rest of a round of handle_middle in the task of path p once a seq is
\* complete: forward_to_server, where the echo server returns the payload;
\* send_downlink, which cuts the response into fragments, a path drawn among
\* the keys of path_writers for each, and writes them; send_ack. A write to
\* a connection the middle has closed loses the bytes, and its drain may
\* raise ConnectionResetError, which ends the task there.
TnExitServe(p, frame, payload) ==
    LET response == payload
        lens == IF tn_cfg.enable_shaping THEN TnBins ELSE {Len(response)}
    IN  \E fragments \in Fragmentations(response, tn_path_writers', lens) :
        \E pads \in TnPads(fragments, tn_cfg.enable_padding) :
           LET down == fragment_writes(frame.seq, DIR_DOWN, frame.window_id,
                                       fragments, pads)
               all == down \o << [path_id |-> frame.path_id,
                                  frames |-> <<ack_frame(frame)>>] >>
               dead == FirstDead(all, tn_link)
           IN  \E raised \in (IF dead > 0 THEN BOOLEAN ELSE {FALSE}) :
                  LET done == IF raised THEN SubSeq(all, 1, dead) ELSE all
                  IN  /\ tn_down' = WriteAll(tn_down, tn_link, done)
                      /\ tn_written' = tn_written \cup TnHeaders(done)
                      /\ tn_late_writes' = tn_late_writes \cup
                            { done[i].path_id : i \in
                                { k \in 1..Len(done) :
                                    /\ k <= Len(down)
                                    /\ tn_exit[done[k].path_id] = "done" } }
                      /\ tn_exit' = [tn_exit EXCEPT ![p] =
                                        IF raised THEN "failed" ELSE "read"]
                      /\ tn_app' = [tn_app EXCEPT !.exit = frame]
                      /\ tn_exit_log' =
                            << [kind |-> "forward", path_id |-> frame.path_id,
                                frame |-> frame] >> \o
                            [k \in 1..Len(done) |->
                                IF k <= Len(down)
                                THEN [kind |-> "down",
                                      seq |-> done[k].frames[1].seq,
                                      frag_total |->
                                          done[k].frames[1].frag_total]
                                ELSE [kind |-> "ack",
                                      path_id |-> done[k].path_id,
                                      frame |-> done[k].frames[1]]]

\* One round of handle_middle's loop on the connection of path p.
TnExitRead(p) ==
    /\ p \in DOMAIN tn_exit
    /\ tn_exit[p] = "read"
    /\ tn_up[p] # <<>>
    /\ LET frame == Head(tn_up[p])
           decoded == decode_payload(frame)
           r == add(tn_exit_fb.buffers, tn_exit_fb.totals, decoded)
       IN  /\ tn_up' = [tn_up EXCEPT ![p] = Tail(@)]
           /\ tn_path_writers' = tn_path_writers \cup {frame.path_id}
           /\ IF exit_skips(frame)
              THEN UNCHANGED <<tn_exit, tn_exit_fb, tn_added, tn_app, tn_down,
                               tn_written, tn_late_writes, tn_exit_log>>
              ELSE IF BitAnd(decoded.flags, FLAG_FRAGMENT) # 0
              THEN /\ tn_exit_fb' = [buffers |-> r.buffers, totals |-> r.totals]
                   /\ tn_added' = [tn_added EXCEPT !.exit = decoded]
                   /\ IF r.raised
                      THEN /\ tn_exit' = [tn_exit EXCEPT ![p] = "failed"]
                           /\ UNCHANGED <<tn_app, tn_down, tn_written,
                                          tn_late_writes, tn_exit_log>>
                      ELSE IF r.complete
                      THEN TnExitServe(p, decoded, r.payload)
                      ELSE UNCHANGED <<tn_exit, tn_app, tn_down, tn_written,
                                       tn_late_writes, tn_exit_log>>
              ELSE /\ TnExitServe(p, decoded, decoded.payload)
                   /\ UNCHANGED <<tn_exit_fb, tn_added>>
    /\ UNCHANGED <<tn_cfg, tn_seq_counter, tn_stats, tn_link, tn_reader,
                   tn_entry_fb, tn_next_down_seq, tn_pending_down, tn_client>>

\* Frame.read_from meets the end of the stream: handle_middle logs the
\* disconnect and returns.
TnExitEof(p) ==
    /\ p \in DOMAIN tn_exit
    /\ tn_exit[p] = "read"
    /\ tn_up[p] = <<>>
    /\ tn_link[p] = "down"
    /\ tn_exit' = [tn_exit EXCEPT ![p] = "done"]
    /\ UNCHANGED <<tn_cfg, tn_seq_counter, tn_stats, tn_up, tn_down, tn_link,
                   tn_path_writers, tn_exit_fb, tn_reader, tn_entry_fb,
                   tn_next_down_seq, tn_pending_down, tn_client, tn_added,
                   tn_app, tn_written, tn_late_writes, tn_exit_log>>

\* One round of read_path's loop on the connection of path p.
TnReadPath(p) ==
    /\ p \in DOMAIN tn_reader
    /\ tn_reader[p] = "read"
    /\ tn_down[p] # <<>>
    /\ LET frame == Head(tn_down[p])
           control == BitAnd(frame.flags,
                             BitOr(FLAG_ACK, BitOr(FLAG_HANDSHAKE, FLAG_PADDING))) # 0
           decoded == IF control THEN frame ELSE decode_payload(frame)
           r == add(tn_entry_fb.buffers, tn_entry_fb.totals, decoded)
           fragment == BitAnd(frame.flags, FLAG_FRAGMENT) # 0
           payload == IF fragment THEN r.payload ELSE decoded.payload
           q == enqueue_downlink(tn_next_down_seq, tn_pending_down, tn_client,
                                 decoded.seq, payload)
       IN  /\ tn_down' = [tn_down EXCEPT ![p] = Tail(@)]
           /\ IF BitAnd(frame.flags, FLAG_ACK) # 0
              THEN /\ tn_stats' = mark_ack(tn_stats, frame.path_id,
                                           UnpackBE(frame.payload), 0)
                   /\ UNCHANGED <<tn_reader, tn_entry_fb, tn_next_down_seq,
                                  tn_pending_down, tn_client, tn_added, tn_app>>
              ELSE IF entry_skips(frame) \/ frame.direction # DIR_DOWN
              THEN UNCHANGED <<tn_stats, tn_reader, tn_entry_fb, tn_next_down_seq,
                               tn_pending_down, tn_client, tn_added, tn_app>>
              ELSE /\ tn_stats' = tn_stats
                   /\ tn_entry_fb' = IF fragment
                                     THEN [buffers |-> r.buffers, totals |-> r.totals]
                                     ELSE tn_entry_fb
                   /\ tn_added' = IF fragment THEN [tn_added EXCEPT !.entry = decoded]
                                  ELSE tn_added
                   /\ tn_reader' = IF fragment /\ r.raised
                                   THEN [tn_reader EXCEPT ![p] = "failed"]
                                   ELSE tn_reader
                   /\ IF fragment /\ ~r.complete
                      THEN UNCHANGED <<tn_next_down_seq, tn_pending_down,
                                       tn_client, tn_app>>
                      ELSE /\ tn_next_down_seq' = q.next
                           /\ tn_pending_down' = q.pending
                           /\ tn_client' = q.out
                           /\ tn_app' = [tn_app EXCEPT !.entry = decoded]
    /\ UNCHANGED <<tn_cfg, tn_seq_counter, tn_up, tn_link, tn_path_writers,
                   tn_exit, tn_exit_fb, tn_written, tn_late_writes, tn_exit_log>>

\* Frame.read_from meets the end of the stream: IncompleteReadError leaves
\* read_path.
TnReadEof(p) ==
    /\ p \in DOMAIN tn_reader
    /\ tn_reader[p] = "read"
    /\ tn_down[p] = <<>>
    /\ tn_link[p] = "down"
    /\ tn_reader' = [tn_reader EXCEPT ![p] = "done"]
    /\ UNCHANGED <<tn_cfg, tn_seq_counter, tn_stats, tn_up, tn_down, tn_link,
                   tn_path_writers, tn_exit, tn_exit_fb, tn_entry_fb,
                   tn_next_down_seq, tn_pending_down, tn_client, tn_added,
                   tn_app, tn_written, tn_late_writes, tn_exit_log>>

(***************************************************************************)
(* The end of a client session at the entry: handle_client's finally block *)
(* and the tasks of read_from_paths (nodes/entry.py).                      *)
(***************************************************************************)

\* The numbers of paths connect_paths may open (PATH_COUNT).
HcPathCounts == {1, 2, 3}

HcInit ==
    /\ hc_pc = "idle"
    /\ hc_i = 0
    /\ hc_conn = EmptyMap
    /\ hc_read_path = EmptyMap
    /\ hc_downlink_task = "none"

\* handle_client up to its read loop: connect_paths opens one connection
\* per path, and downlink_task (read_from_paths) starts one read_path task
\* per connection and awaits their gather.
HcConnect(n) ==
    /\ hc_pc = "idle"
    /\ hc_pc' = "loop"
    /\ hc_conn' = [p \in 0..(n - 1) |-> "open"]
    /\ hc_read_path' = [p \in 0..(n - 1) |-> "running"]
    /\ hc_downlink_task' = "pending"
    /\ UNCHANGED hc_i

\* gather(*tasks) without return_exceptions: the first exception of a
\* read_path task ends the awaiting downlink_task and leaves the other
\* read_path tasks running.
gather_raised(downlink_task) ==
    IF downlink_task = "pending" THEN "failed" ELSE downlink_task

\* The stream of a path ends under read_path, cleanly (the peer closed) or
\* with an error (the connection was reset): Frame.read_from raises, and
\* read_path, which catches nothing, ends with the exception.
HcPathLost(p, how) ==
    /\ hc_pc \in {"loop", "wait_client", "wait_path"}
    /\ p \in DOMAIN hc_conn
    /\ \/ hc_conn[p] = "open"
       \/ hc_conn[p] = "eof" /\ how = "reset"
    /\ hc_conn' = [hc_conn EXCEPT ![p] = how]
    /\ IF hc_read_path[p] = "running"
       THEN /\ hc_read_path' = [hc_read_path EXCEPT ![p] = "failed"]
            /\ hc_downlink_task' = gather_raised(hc_downlink_task)
       ELSE UNCHANGED <<hc_read_path, hc_downlink_task>>
    /\ UNCHANGED <<hc_pc, hc_i>>

\* Task.cancel() on downlink_task: a task that is done is left alone; one
\* awaiting the gather is cancelled, and the gather cancels its children.
cancel(downlink_task, read_path) ==
    IF downlink_task = "pending"
    THEN [downlink_task |-> "cancelled",
          read_path |-> [p \in DOMAIN read_path |->
                            IF read_path[p] = "running" THEN "cancelled"
                            ELSE read_path[p]]]
    ELSE [downlink_task |-> downlink_task, read_path |-> read_path]

\* StreamWriter.close() on a path writer.
close(conn, p) ==
    IF conn[p] \in {"open", "eof"} THEN [conn EXCEPT ![p] = "closing"]
    ELSE conn

\* reader.read(2048) returns b"": the loop breaks and the finally block
\* runs up to its first await (the client writer's wait_closed).
HcClientEof ==
    /\ hc_pc = "loop"
    /\ LET c == cancel(hc_downlink_task, hc_read_path) IN
         /\ hc_downlink_task' = c.downlink_task
         /\ hc_read_path' = c.read_path
    /\ hc_pc' = "wait_client"
    /\ UNCHANGED <<hc_i, hc_conn>>

\* The client writer's wait_closed returns; the loop over path_conns closes
\* the first path writer and awaits its wait_closed.
HcClientClosed ==
    /\ hc_pc = "wait_client"
    /\ hc_pc' = "wait_path"
    /\ hc_i' = 0
    /\ hc_conn' = close(hc_conn, 0)
    /\ UNCHANGED <<hc_read_path, hc_downlink_task>>

\* wait_closed of path writer hc_i ends. On a connection that was lost with
\* an error it raises that error, which leaves the finally block and
\* handle_client; otherwise the connection is closed, a read_path still
\* reading it meets the end of its stream, and the loop goes on to the next
\* path writer or handle_client returns.
HcPathClosed ==
    /\ hc_pc = "wait_path"
    /\ IF hc_conn[hc_i] = "reset"
       THEN /\ hc_pc' = "raised"
            /\ UNCHANGED <<hc_i, hc_conn, hc_read_path, hc_downlink_task>>
       ELSE /\ hc_read_path' =
                   [hc_read_path EXCEPT ![hc_i] =
                       IF @ = "running" THEN "failed" ELSE @]
            /\ hc_downlink_task' =
                   IF hc_read_path[hc_i] = "running"
                   THEN gather_raised(hc_downlink_task)
                   ELSE hc_downlink_task
            /\ IF hc_i + 1 \in DOMAIN hc_conn
               THEN /\ hc_conn' = close([hc_conn EXCEPT ![hc_i] = "closed"],
                                        hc_i + 1)
                    /\ hc_i' = hc_i + 1
                    /\ UNCHANGED hc_pc
               ELSE /\ hc_conn' = [hc_conn EXCEPT ![hc_i] = "closed"]
                    /\ hc_pc' = "returned"
                    /\ UNCHANGED hc_i

(***************************************************************************)
(* MultiPathScheduler.choose_path and choose_path_from (scheduler.py).     *)
(* Every weight is at least 0.1 (update_weights), so random.choices may    *)
(* give any of the paths it is handed: a draw is a choice among them.      *)
(***************************************************************************)

\* Upper bound on the number of calls in one run.
MaxPicks == 6

CpPathSets == {{0, 1}, {0, 1, 2}}
CpBatchSizes == {1, 2, 3, 4}

NoPick == [allowed |-> {}, raised |-> FALSE, ret |-> -1,
           current_path |-> -1, batch_remaining |-> -1, called |-> FALSE]

CpInit ==
    /\ cp_path_ids = {}
    /\ cp_batch_size = 0
    /\ cp_current_path = -1
    /\ cp_batch_remaining = 0
    /\ cp_picks = <<>>
    /\ cp_draws = {}
    /\ cp_last = NoPick

\* MultiPathScheduler.__init__: first is what random.choice(path_ids) gave.
CpConstruct(path_ids, batch_size, first) ==
    /\ cp_path_ids = {}
    /\ first \in path_ids
    /\ cp_path_ids' = path_ids
    /\ cp_batch_size' = batch_size
    /\ cp_current_path' = first
    /\ cp_batch_remaining' = 0
    /\ UNCHANGED <<cp_picks, cp_draws, cp_last>>

\* choose_path on the state [current_path, batch_remaining]; drawn is what
\* random.choices would give if it is called.
choose_path_late_draw(s, batch_size, drawn) ==
    LET draw == s.batch_remaining < 0
        remaining == IF draw THEN batch_size ELSE s.batch_remaining
        current == IF draw THEN drawn ELSE s.current_path
    IN  [current_path |-> current, batch_remaining |-> remaining - 1,
         drew |-> draw, ret |-> current]
choose_path(s, batch_size, drawn) ==
    LET draw == s.batch_remaining <= 0
        remaining == IF draw THEN batch_size ELSE s.batch_remaining
        current == IF draw THEN drawn ELSE s.current_path
    IN  [current_path |-> current, batch_remaining |-> remaining - 1,
         drew |-> draw, ret |-> current]

\* choose_path_from(allowed_paths); an empty list raises ValueError before
\* anything is assigned.
choose_path_from_batch_only(s, batch_size, allowed_paths, drawn) ==
    IF allowed_paths = {}
    THEN [current_path |-> s.current_path,
          batch_remaining |-> s.batch_remaining,
          drew |-> FALSE, ret |-> -1, raised |-> TRUE]
    ELSE LET draw == s.batch_remaining <= 0
             remaining == IF draw THEN batch_size ELSE s.batch_remaining
             current == IF draw THEN drawn ELSE s.current_path
         IN  [current_path |-> current, batch_remaining |-> remaining - 1,
              drew |-> draw, ret |-> current, raised |-> FALSE]
choose_path_from(s, batch_size, allowed_paths, drawn) ==
    IF allowed_paths = {}
    THEN [current_path |-> s.current_path,
          batch_remaining |-> s.batch_remaining,
          drew |-> FALSE, ret |-> -1, raised |-> TRUE]
    ELSE LET draw == \/ s.current_path \notin allowed_paths
                     \/ s.batch_remaining <= 0
             remaining == IF draw THEN batch_size ELSE s.batch_remaining
             current == IF draw THEN drawn ELSE s.current_path
         IN  [current_path |-> current, batch_remaining |-> remaining - 1,
              drew |-> draw, ret |-> current, raised |-> FALSE]

CpState == [current_path |-> cp_current_path,
            batch_remaining |-> cp_batch_remaining]

\* One call of choose_path.
ChoosePath ==
    /\ cp_path_ids # {}
    /\ Len(cp_picks) < MaxPicks
    /\ \E drawn \in cp_path_ids :
         LET r == choose_path(CpState, cp_batch_size, drawn) IN
           /\ cp_current_path' = r.current_path
           /\ cp_batch_remaining' = r.batch_remaining
           /\ cp_picks' = Append(cp_picks, r.ret)
           /\ cp_draws' = IF r.drew THEN cp_draws \cup {Len(cp_picks) + 1}
                          ELSE cp_draws
    /\ UNCHANGED <<cp_path_ids, cp_batch_size, cp_last>>

\* One call of choose_path_from(allowed_paths).
ChoosePathFrom(allowed_paths) ==
    /\ cp_path_ids # {}
    /\ Len(cp_picks) < MaxPicks
    /\ \E drawn \in (IF allowed_paths = {} THEN {-1} ELSE allowed_paths) :
         LET r == choose_path_from(CpState, cp_batch_size, allowed_paths,
                                   drawn) IN
           /\ cp_current_path' = r.current_path
           /\ cp_batch_remaining' = r.batch_remaining
           /\ cp_picks' = IF r.raised THEN cp_picks
                          ELSE Append(cp_picks, r.ret)
           /\ cp_draws' = IF r.drew THEN cp_draws \cup {Len(cp_picks) + 1}
                          ELSE cp_draws
           /\ cp_last' = [allowed |-> allowed_paths, raised |-> r.raised,
                          ret |-> r.ret,
                          current_path |-> cp_current_path,
                          batch_remaining |-> cp_batch_remaining,
                          called |-> TRUE]
    /\ UNCHANGED <<cp_path_ids, cp_batch_size>>

(***************************************************************************)
(* EntryNode.start_window_loop with the telemetry of the entry's scheduler *)
(* (nodes/entry.py). EntryNode.__init__ is taken as its body would leave   *)
(* the node, with the engine of the shared configuration.                  *)
(***************************************************************************)

\* Upper bounds on the clock (in steps) and on the telemetry calls.
MaxEntryClock == 4
MaxEntrySent == 1
MaxEntryAcked == 1

\* Config.window_size_sec and Config.ack_timeout_sec, in ms
WindowSizeMs == 10000
AckTimeoutMs == 2000

EwPaths == {0, 1}
EwSeqs == {0, 1}
EwConfigs ==
    { c \in XwConfigs :
        /\ c.mode = "normal" /\ c.base_padding = 100
        /\ c.proto_switch_period = 2
        /\ c.adaptive_paths /\ c.adaptive_proto
        /\ c.obfuscation_level = 2 }

NoTick == [ticked |-> FALSE, expired |-> 0, left |-> 0, args |-> <<>>,
           raised |-> FALSE]

EwInit ==
    /\ ew_cfg = NoConfig
    /\ ew_window_task = "none"
    /\ ew_wake = 0
    /\ ew_now = 0
    /\ ew_window_id = 0
    /\ ew_timeout_events = 0
    /\ ew_stats = EmptyMap
    /\ ew_weights = EmptyMap
    /\ ew_ctr = [family_index |-> 0, variant_seed |-> 0]
    /\ ew_family_by_path = EmptyMap
    /\ ew_variant_by_path = EmptyMap
    /\ ew_params = EmptyMap
    /\ ew_q_dist = EmptyMap
    /\ ew_path_states = EmptyMap
    /\ ew_log = <<>>
    /\ ew_tick = NoTick
    /\ ew_chunks = [seq_counter |-> 0, unacked |-> {}]

\* EntryNode.__init__(config)
EwConstruct ==
    /\ ew_cfg = NoConfig
    /\ \E cfg \in EwConfigs :
          /\ ew_cfg' = cfg
          /\ ew_stats' = [p \in EwPaths |-> PathStats0]
          /\ ew_weights' = [p \in EwPaths |-> WeightOne]
          /\ ew_family_by_path' = [p \in EwPaths |-> 1]
          /\ ew_variant_by_path' = [p \in EwPaths |-> 0]
          /\ ew_params' = [p \in EwPaths |-> XwBaseParams(cfg)]
          /\ ew_q_dist' = [p \in EwPaths |->
                              [base |-> XwBaseParams(cfg).q_dist,
                               drift |-> 0, seed |-> 0]]
          /\ ew_path_states' = [p \in EwPaths |-> BehaviorState0(0)]
    /\ UNCHANGED <<ew_window_task, ew_wake, ew_now, ew_window_id,
                   ew_timeout_events, ew_ctr, ew_log, ew_tick, ew_chunks>>

\* handle_client, where it creates the window task; the task goes to sleep
\* for window_size_sec.
EwStart ==
    /\ ew_cfg # NoConfig
    /\ ew_window_task = "none"
    /\ ew_window_task' = "sleeping"
    /\ ew_wake' = ew_now + WindowSizeMs
    /\ UNCHANGED <<ew_cfg, ew_now, ew_window_id, ew_timeout_events, ew_stats,
                   ew_weights, ew_ctr, ew_family_by_path, ew_variant_by_path,
                   ew_params, ew_q_dist, ew_path_states, ew_log, ew_tick,
                   ew_chunks>>

\* The clock moves in steps of half a window.
EwAdvanceClock ==
    /\ ew_cfg # NoConfig
    /\ ew_now < MaxEntryClock * (WindowSizeMs \div 2)
    /\ ew_now' = ew_now + (WindowSizeMs \div 2)
    /\ UNCHANGED <<ew_cfg, ew_window_task, ew_wake, ew_window_id,
                   ew_timeout_events, ew_stats, ew_weights, ew_ctr,
                   ew_family_by_path, ew_variant_by_path, ew_params,
                   ew_q_dist, ew_path_states, ew_log, ew_tick, ew_chunks>>

\* send_chunk's mark_sent for a fragment of seq written on path p.
EwMarkSent(p, seq) ==
    /\ ew_cfg # NoConfig
    /\ SumOver([q \in EwPaths |-> ew_stats[q].sent], EwPaths) < MaxEntrySent
    /\ ew_stats' = mark_sent(ew_stats, p, seq, ew_now)
    /\ UNCHANGED <<ew_cfg, ew_window_task, ew_wake, ew_now, ew_window_id,
                   ew_timeout_events, ew_weights, ew_ctr, ew_family_by_path,
                   ew_variant_by_path, ew_params, ew_q_dist, ew_path_states,
                   ew_log, ew_tick, ew_chunks>>

\* read_path's mark_ack for an ACK frame read on path p, for any seq: in
\* flight, never sent, expired or acknowledged before.
EwMarkAck(p, seq) ==
    /\ ew_cfg # NoConfig
    /\ SumOver([q \in EwPaths |-> ew_stats[q].acked], EwPaths) < MaxEntryAcked
    /\ ew_stats' = mark_ack(ew_stats, p, seq, ew_now)
    /\ UNCHANGED <<ew_cfg, ew_window_task, ew_wake, ew_now, ew_window_id,
                   ew_timeout_events, ew_weights, ew_ctr, ew_family_by_path,
                   ew_variant_by_path, ew_params, ew_q_dist, ew_path_states,
                   ew_log, ew_tick, ew_chunks>>

\* The seqs of one path whose send is older than ack_timeout_sec.
expired(ps, t) ==
    {seq \in DOMAIN ps.last_send_ts : t - ps.last_send_ts[seq] > AckTimeoutMs}

\* The statistics after the expired entries are popped.
expire(st, t) ==
    [p \in DOMAIN st |->
        [st[p] EXCEPT !.last_send_ts =
            [seq \in (DOMAIN @) \ expired(st[p], t) |-> @[seq]]]]

\* log_entry of the entry's loop for path p.
EwLogEntry(w, p, metrics, out, states) ==
    [window_id |-> w, path_id |-> p,
     obfuscation_level |-> out.obfuscation_level,
     alpha_padding |-> out.behavior_by_path[p].padding_alpha,
     rate_bytes_per_sec |-> out.behavior_by_path[p].rate_bytes_per_sec,
     jitter_ms |-> out.behavior_by_path[p].jitter_ms,
     proto_family |-> out.family_by_path[p],
     proto_variant |-> out.variant_by_path[p],
     padding_bytes |-> states[p].padding_bytes,
     rtt_ms |-> metrics[p].rtt_ms, loss |-> metrics[p].loss]

\* One record per path, in the order of metrics.items(): the path ids
\* 0, 1, ... of the scheduler.
EwLogEntries(w, ps, metrics, out, states) ==
    [i \in 1..Cardinality(ps) |-> EwLogEntry(w, i - 1, metrics, out, states)]

\* One round of start_window_loop once its sleep is over. The loop calls
\* strategy.evaluate(metrics, self.timeout_events); evaluate has the three
\* parameters metrics, timeout_events and window_id, none with a default,
\* so a call with two arguments raises TypeError, which ends the task.
\* with_window_id tells whether the call is made with the window_id as its
\* third argument (as the exit makes it) or as the entry has it.
EwTick(with_window_id) ==
    /\ ew_window_task = "sleeping"
    /\ ew_now >= ew_wake
    /\ LET n == SumOver([p \in EwPaths |->
                            Cardinality(expired(ew_stats[p], ew_now))], EwPaths)
           st == expire(ew_stats, ew_now)
           left == SumOver([p \in EwPaths |->
                               Cardinality(expired(st[p], ew_now))], EwPaths)
           timeout_events == ew_timeout_events + n
           w == ew_window_id + 1
           metrics == snapshot(st)
           args == IF with_window_id THEN <<metrics, timeout_events, w>>
                   ELSE <<metrics, timeout_events>>
       IN  /\ ew_stats' = st
           /\ ew_window_id' = w
           /\ IF Len(args) # 3
              THEN /\ ew_window_task' = "failed"
                   /\ ew_timeout_events' = timeout_events
                   /\ ew_tick' = [ticked |-> TRUE, expired |-> n,
                                  left |-> left, args |-> args,
                                  raised |-> TRUE]
                   /\ UNCHANGED <<ew_wake, ew_weights, ew_ctr,
                                  ew_family_by_path, ew_variant_by_path,
                                  ew_params, ew_q_dist, ew_path_states,
                                  ew_log>>
              ELSE \E bins \in JitteredBins(ew_cfg.size_bins) :
                     LET r == evaluate(ew_cfg, ew_ctr, args[1], args[2],
                                       args[3], bins)
                         out == r.out
                         states == start_window(ew_path_states, w)
                     IN  /\ ew_ctr' = r.ctr
                         /\ ew_weights' = update_weights(ew_weights, out.weights)
                         /\ ew_family_by_path' = out.family_by_path
                         /\ ew_variant_by_path' = out.variant_by_path
                         /\ ew_params' = out.behavior_by_path
                         /\ ew_q_dist' =
                               [p \in EwPaths |->
                                   update_q_dist(out.behavior_by_path[p],
                                                 XwDrift(out.obfuscation_level),
                                                 w * 100 + p)]
                         /\ ew_path_states' = states
                         /\ ew_log' = ew_log \o
                               EwLogEntries(w, EwPaths, metrics, out, states)
                         /\ ew_timeout_events' = 0
                         /\ ew_tick' = [ticked |-> TRUE, expired |-> n,
                                        left |-> left, args |-> args,
                                        raised |-> FALSE]
                         /\ ew_wake' = ew_now + WindowSizeMs
                         /\ UNCHANGED ew_window_task
    /\ UNCHANGED <<ew_cfg, ew_now, ew_chunks>>

\* The largest frag_id + 1 and frag_total a frame from the wire carries, and
\* the last window the exit's loop reaches.
MaxBufFrags == 2
MaxBufWindow == 3

\* The frames Frame.read_from may hand to the reassembler: it checks neither
\* frag_id against frag_total nor frag_total against earlier fragments.
\* The fragment with frag_id i carries the byte i + 1.
FwSeqs == {0, 1}
FwFrames ==
    [seq : FwSeqs, frag_id : 0..(MaxBufFrags - 1), frag_total : 1..MaxBufFrags,
     payload : {<<b>> : b \in 1..MaxBufFrags}]

NoAdd == [called |-> FALSE, complete |-> FALSE, payload |-> <<>>, raised |-> FALSE]

FwInit ==
    /\ fw_buffers = EmptyMap
    /\ fw_totals = EmptyMap
    /\ fw_window_id = 0
    /\ fw_seen = EmptyMap
    /\ fw_ret = NoAdd

\* handle_middle reads a fragment frame and hands it to fragment_buffer.add.
\* A KeyError out of add ends this handler; the buffer it leaves behind is
\* shared with the handlers of the other paths.
FwAdd(frame) ==
    /\ frame.payload = <<frame.frag_id + 1>>
    /\ LET r == add(fw_buffers, fw_totals, frame)
       IN  /\ fw_buffers' = r.buffers
           /\ fw_totals' = r.totals
           /\ fw_seen' = IF frame.seq \in DOMAIN r.buffers
                         THEN Put(fw_seen, frame.seq, fw_window_id)
                         ELSE Drop(fw_seen, frame.seq)
           /\ fw_ret' = [called |-> TRUE, complete |-> r.complete,
                         payload |-> r.payload, raised |-> r.raised]
    /\ UNCHANGED fw_window_id

\* One round of start_window_loop, as far as the reassembler is concerned:
\* window_id advances, fragment_buffer is not touched.
FwTick ==
    /\ fw_window_id < MaxBufWindow
    /\ fw_window_id' = fw_window_id + 1
    /\ UNCHANGED <<fw_buffers, fw_totals, fw_seen, fw_ret>>

\* Bounds: update_burst calls on a path within one window, and windows.
MaxBurstCalls == 9
MaxBurstWindow == 2

\* The burst sizes evaluate hands out, one per obfuscation level.
UbBurstSizes == {LevelPreset([obfuscation_level |-> l, base_padding |-> 0,
                              base_jitter |-> 0, base_rate |-> 0]).burst : l \in StLevels}
UbPaths == {0, 1}

NoBurst == [path_id |-> 0, fire |-> FALSE, called |-> FALSE]

\* BehaviorShaper.__init__ with the base parameters of the endpoints.
UbInit ==
    /\ ub_params = [p \in UbPaths |-> [burst_size |-> BaseBurst]]
    /\ ub_states = [p \in UbPaths |-> BehaviorState0(0)]
    /\ ub_window_id = 0
    /\ ub_calls = [p \in UbPaths |-> 0]
    /\ ub_ret = NoBurst

\* A sender calls update_burst(path_id) after writing a fragment.
UbUpdateBurst(path_id) ==
    /\ ub_calls[path_id] < MaxBurstCalls
    /\ LET r == update_burst(ub_states, ub_params, path_id)
       IN  /\ ub_states' = r.states
           /\ ub_ret' = [path_id |-> path_id, fire |-> r.fire, called |-> TRUE]
    /\ ub_calls' = [ub_calls EXCEPT ![path_id] = @ + 1]
    /\ UNCHANGED <<ub_params, ub_window_id>>

\* The window tick as the shaper sees it: set_params for every path with
\* the burst_size of the controller's output, then start_window.
UbWindowTick ==
    /\ ub_window_id < MaxBurstWindow
    /\ \E b \in UbBurstSizes :
          ub_params' = [p \in UbPaths |->
                           set_params(ub_params, p, [burst_size |-> b])[p]]
    /\ ub_window_id' = ub_window_id + 1
    /\ ub_states' = start_window(ub_states, ub_window_id + 1)
    /\ ub_calls' = [p \in UbPaths |-> 0]
    /\ UNCHANGED ub_ret

\* Bounds: the clock, the pace calls and the window resets of the pace driver.
MaxPaceClock == 4
MaxPaceCalls == 3
MaxPaceWindow == 2

PcTasks == {1, 2}
\* Payload sizes in bytes and rates in bytes per ms.
PcSizes == {1, 3}
PcRates == {1, 2}

\* BehaviorState(window_id=w), as far as pace reads and writes it.
PaceState0 == [last_ts |-> 0, tokens |-> 0]

PcIdle == [pc |-> "idle", epoch |-> 0, wake |-> 0]
NoPace == [called |-> FALSE, enabled |-> FALSE, refilled |-> 0, size |-> 0,
           suspended |-> FALSE]

\* ceil(a / b) for b > 0
CeilDiv(a, b) == (a + b - 1) \div b

\* A flawed pace that takes the bytes out of the bucket before it looks
\* whether the bucket holds them.
pace_overdraw(state, params, ts, size) ==
    IF ~params.enable_pacing
    THEN [state |-> state, suspend |-> FALSE, needed |-> 0, refilled |-> state.tokens]
    ELSE LET current == IF state.last_ts = 0 THEN ts ELSE state.last_ts
             t0 == IF state.last_ts = 0 THEN 0 ELSE state.tokens
             tokens == t0 + Max(0, ts - current) * params.rate
         IN  [state |-> [last_ts |-> ts, tokens |-> tokens - size],
              suspend |-> tokens < size,
              needed |-> IF tokens < size
                         THEN CeilDiv(size - tokens, Max(params.rate, 1)) ELSE 0,
              refilled |-> tokens]

\* BehaviorShaper.pace(path_id, size) up to its await or its return: the
\* state object after the synchronous part, whether the call suspends, and
\* for how long (needed = (size - tokens) / max(rate, 1)).
pace(state, params, ts, size) ==
    IF ~params.enable_pacing
    THEN [state |-> state, suspend |-> FALSE, needed |-> 0, refilled |-> state.tokens]
    ELSE LET current == IF state.last_ts = 0 THEN ts ELSE state.last_ts
             t0 == IF state.last_ts = 0 THEN 0 ELSE state.tokens
             tokens == t0 + Max(0, ts - current) * params.rate
         IN  IF tokens < size
             THEN [state |-> [last_ts |-> ts, tokens |-> tokens],
                   suspend |-> TRUE,
                   needed |-> CeilDiv(size - tokens, Max(params.rate, 1)),
                   refilled |-> tokens]
             ELSE [state |-> [last_ts |-> ts, tokens |-> tokens - size],
                   suspend |-> FALSE, needed |-> 0, refilled |-> tokens]

\* BehaviorShaper.__init__; the clock of the event loop is past 0.
PcInit ==
    /\ pc_now = 1
    /\ pc_params = [enable_pacing |-> TRUE, rate |-> 1]
    /\ pc_state = PaceState0
    /\ pc_epoch = 0
    /\ pc_task = [t \in PcTasks |-> PcIdle]
    /\ pc_calls = 0
    /\ pc_last = NoPace

PcAdvanceClock ==
    /\ pc_now < MaxPaceClock
    /\ pc_now' = pc_now + 1
    /\ UNCHANGED <<pc_params, pc_state, pc_epoch, pc_task, pc_calls, pc_last>>

\* A sender (send_chunk, send_downlink) calls pace for a payload of size
\* bytes: the call runs to its return or to its asyncio.sleep.
PcPace(t, size) ==
    /\ pc_task[t].pc = "idle"
    /\ pc_calls < MaxPaceCalls
    /\ LET r == pace(pc_state, pc_params, pc_now, size)
       IN  /\ pc_state' = r.state
           /\ pc_task' = [pc_task EXCEPT ![t] =
                 IF r.suspend
                 THEN [pc |-> "sleeping", epoch |-> pc_epoch,
                       wake |-> pc_now + r.needed]
                 ELSE PcIdle]
           /\ pc_last' = [called |-> TRUE, enabled |-> pc_params.enable_pacing,
                          refilled |-> r.refilled, size |-> size,
                          suspended |-> r.suspend]
    /\ pc_calls' = pc_calls + 1
    /\ UNCHANGED <<pc_now, pc_params, pc_epoch>>

\* The sleep of a suspended pace call is over: state.tokens = 0.0 on the
\* object the call fetched when it began. After a start_window that object
\* is no longer the one in path_states, and the assignment is lost.
PcWake(t) ==
    /\ pc_task[t].pc = "sleeping"
    /\ pc_now >= pc_task[t].wake
    /\ pc_state' = IF pc_task[t].epoch = pc_epoch
                   THEN [pc_state EXCEPT !.tokens = 0] ELSE pc_state
    /\ pc_task' = [pc_task EXCEPT ![t] = PcIdle]
    /\ UNCHANGED <<pc_now, pc_params, pc_epoch, pc_calls, pc_last>>

\* The window tick as pace sees it: set_params with the controller's
\* output, then start_window, which puts a fresh state object in place.
PcWindowTick ==
    /\ pc_epoch < MaxPaceWindow
    /\ \E e \in BOOLEAN, r \in PcRates :
          pc_params' = [enable_pacing |-> e, rate |-> r]
    /\ pc_state' = PaceState0
    /\ pc_epoch' = pc_epoch + 1
    /\ UNCHANGED <<pc_now, pc_task, pc_calls, pc_last>>

\* Bounds of the downlink traffic driver: the fragments noted on a path
\* within one window, and the windows.
MaxExitPieces == 4
MaxTrafficTicks == 2

\* The exits the traffic driver runs: level 1 (burst_size 4) with padding
\* on; and the length of a downlink fragment.
XwTrafficConfigs ==
    { c \in XwConfigs :
        /\ c.mode = "normal" /\ c.obfuscation_level = 1
        /\ c.base_padding = 1000 /\ c.proto_switch_period = 2
        /\ c.adaptive_paths /\ c.adaptive_behavior /\ c.adaptive_proto }
XwPieceLens == {100}

\* send_downlink, its fragmenting loop, which runs without suspension: a
\* payload that makes one fragment is given a path and its bytes are noted.
XwSendDownlink(path_id, len) ==
    /\ xw_window_task
    /\ xw_emit = <<>>
    /\ xw_path_states[path_id].real_bytes < MaxExitPieces * len
    /\ xw_path_states' = note_real_bytes(xw_path_states, xw_params, path_id, len)
    /\ xw_emit' = <<path_id>>
    /\ UNCHANGED <<xw_cfg, xw_window_task, xw_window_id, xw_ctr, xw_weights,
                   xw_family_by_path, xw_variant_by_path, xw_params, xw_q_dist,
                   xw_proto, xw_log>>

\* send_downlink after the suspension points of a fragment (pace, jitter
\* sleep, drain): update_burst and, when it fires, make_padding_frames.
XwEmit ==
    /\ xw_emit # <<>>
    /\ LET path_id == Head(xw_emit)
           ub == update_burst(xw_path_states, xw_params, path_id)
       IN  IF ub.fire
           THEN \E samples \in [1..MaxPaddingFrames ->
                                   {xw_params[path_id].size_bins[1]}] :
                  LET sizes == make_padding_frames(ub.states[path_id],
                                                   xw_params[path_id], samples)
                  IN  xw_path_states' =
                         [ub.states EXCEPT ![path_id].padding_bytes = @ + SeqSum(sizes)]
           ELSE xw_path_states' = ub.states
    /\ xw_emit' = Tail(xw_emit)
    /\ UNCHANGED <<xw_cfg, xw_window_task, xw_window_id, xw_ctr, xw_weights,
                   xw_family_by_path, xw_variant_by_path, xw_params, xw_q_dist,
                   xw_proto, xw_log>>

\* Bounds: client connections of one EntryNode, and chunks it sends in all.
MaxConns == 2
MaxSessionChunks == 4

NoSeq == 0 - 1

RECURSIVE Drain(_, _, _)
\* The loop of enqueue_downlink: while next_down_seq is pending, pop it,
\* write it to the client and advance the cursor.
Drain(next, pending, written) ==
    IF next \in DOMAIN pending
    THEN Drain(next + 1, Drop(pending, next), Append(written, next))
    ELSE [next |-> next, pending |-> pending, written |-> written]

\* EntryNode.__init__, as its body would leave the node.
SnInit ==
    /\ sn_conn = [count |-> 0, open |-> FALSE]
    /\ sn_seq_counter = 0
    /\ sn_next_down_seq = 0
    /\ sn_pending_down = EmptyMap
    /\ sn_first_seq = NoSeq
    /\ sn_awaited = {}
    /\ sn_written = <<>>

\* handle_client up to its read loop, for a client that connects while no
\* other is connected: the cursor and the reorder buffer are reset, the
\* seq_counter of the node is not.
SnAccept ==
    /\ ~sn_conn.open
    /\ sn_conn.count < MaxConns
    /\ sn_conn' = [count |-> sn_conn.count + 1, open |-> TRUE]
    /\ sn_next_down_seq' = 0
    /\ sn_pending_down' = EmptyMap
    /\ sn_first_seq' = NoSeq
    /\ sn_awaited' = {}
    /\ sn_written' = <<>>
    /\ UNCHANGED sn_seq_counter

\* send_chunk: the chunk takes the node's next seq; the exit answers with
\* downlink frames of the same seq.
SnSendChunk ==
    /\ sn_conn.open
    /\ sn_seq_counter < MaxSessionChunks
    /\ sn_seq_counter' = sn_seq_counter + 1
    /\ sn_awaited' = sn_awaited \cup {sn_seq_counter}
    /\ sn_first_seq' = IF sn_first_seq = NoSeq THEN sn_seq_counter ELSE sn_first_seq
    /\ UNCHANGED <<sn_conn, sn_next_down_seq, sn_pending_down, sn_written>>

\* read_path has reassembled the response of seq and calls
\* enqueue_downlink(seq, payload, client_writer).
SnEnqueueDownlink(seq) ==
    /\ sn_conn.open
    /\ seq \in sn_awaited
    /\ LET d == Drain(sn_next_down_seq, Put(sn_pending_down, seq, <<seq>>),
                      sn_written)
       IN  /\ sn_next_down_seq' = d.next
           /\ sn_pending_down' = d.pending
           /\ sn_written' = d.written
    /\ sn_awaited' = sn_awaited \ {seq}
    /\ UNCHANGED <<sn_conn, sn_seq_counter, sn_first_seq>>

\* The client closes its socket: handle_client leaves its loop and closes
\* the path connections, so no response of this connection arrives later.
SnClientClosed ==
    /\ sn_conn.open
    /\ sn_conn' = [sn_conn EXCEPT !.open = FALSE]
    /\ sn_awaited' = {}
    /\ UNCHANGED <<sn_seq_counter, sn_next_down_seq, sn_pending_down,
                   sn_first_seq, sn_written>>

\* Bound: the chunks the acknowledged-traffic driver sends.
MaxEntryChunks == 2

\* send_chunk for a chunk of one or two fragments whose paths are
\* fragments[1], fragments[2]: the chunk takes the next seq and mark_sent
\* is called for every fragment on its path.
EwSendChunk(fragments) ==
    /\ ew_cfg # NoConfig
    /\ ew_chunks.seq_counter < MaxEntryChunks
    /\ LET seq == ew_chunks.seq_counter
           st1 == mark_sent(ew_stats, fragments[1], seq, ew_now)
       IN  /\ ew_stats' = IF Len(fragments) = 1 THEN st1
                          ELSE mark_sent(st1, fragments[2], seq, ew_now)
           /\ ew_chunks' = [seq_counter |-> seq + 1,
                            unacked |-> ew_chunks.unacked \cup {seq}]
    /\ UNCHANGED <<ew_cfg, ew_window_task, ew_wake, ew_now, ew_window_id,
                   ew_timeout_events, ew_weights, ew_ctr, ew_family_by_path,
                   ew_variant_by_path, ew_params, ew_q_dist, ew_path_states,
                   ew_log, ew_tick>>

\* read_path reads the exit's ACK of seq. The exit sends one ACK per
\* reassembled seq, on the path of the fragment that completed it
\* (send_ack: path_id=frame.path_id), which is one of the paths the seq was
\* sent on.
EwReadAck(p, seq) ==
    /\ seq \in ew_chunks.unacked
    /\ seq \in DOMAIN ew_stats[p].last_send_ts
    /\ ew_stats' = mark_ack(ew_stats, p, seq, ew_now)
    /\ ew_chunks' = [ew_chunks EXCEPT !.unacked = @ \ {seq}]
    /\ UNCHANGED <<ew_cfg, ew_window_task, ew_wake, ew_now, ew_window_id,
                   ew_timeout_events, ew_weights, ew_ctr, ew_family_by_path,
                   ew_variant_by_path, ew_params, ew_q_dist, ew_path_states,
                   ew_log, ew_tick>>

\* Bound: the frames written to the path writer.
MaxSockFrames == 3

\* The tasks that may hold the same path writer: send_downlink called from
\* the handlers of two paths, and send_ack.
SkTasks == {"downlink_0", "downlink_1", "ack"}
\* The frame each of them writes: a downlink fragment of the response of
\* seq 0 or of seq 1, or the ACK of a fragment of seq 2.
SkFrame(t) ==
    IF t = "downlink_0"
    THEN [WireBase EXCEPT !.direction = DIR_DOWN, !.seq = 0, !.payload = <<1, 2>>]
    ELSE IF t = "downlink_1"
    THEN [WireBase EXCEPT !.direction = DIR_DOWN, !.seq = 1, !.payload = <<3>>,
                          !.extra_header = <<0, 9>>]
    ELSE ack_frame([WireBase EXCEPT !.seq = 2])

SkIdle == [pc |-> "idle", left |-> <<>>]

\* A flawed hand-over in two buffers, the fixed header first and the rest
\* after a drain.
frame_buffers_header_first(frame) ==
    LET data == Frame_encode(frame)
    IN  <<SubSeq(data, 1, HEADER_SIZE), SubSeq(data, HEADER_SIZE + 1, Len(data))>>

\* writer.write(frame.encode()): the buffers in which a frame is handed to
\* the writer, with a drain after each. It is one buffer.
frame_buffers(frame) ==
    <<Frame_encode(frame)>>

RECURSIVE SkParse(_)
\* What the middle reads from the stream with Frame.read_from, frame after
\* frame, until no whole frame is left.
SkParse(stream) ==
    IF frame_size(stream) = 0 THEN <<>>
    ELSE <<read_from(stream)>>
         \o SkParse(SubSeq(stream, frame_size(stream) + 1, Len(stream)))

SkInit ==
    /\ sk_stream = <<>>
    /\ sk_task = [t \in SkTasks |-> SkIdle]
    /\ sk_frames = <<>>

\* A task reaches writer.write(frame.encode()) and goes on to its
\* await writer.drain().
SkWrite(t) ==
    /\ sk_task[t].pc = "idle"
    /\ Len(sk_frames) < MaxSockFrames
    /\ LET buffers == frame_buffers(SkFrame(t))
       IN  /\ sk_stream' = sk_stream \o Head(buffers)
           /\ sk_task' = [sk_task EXCEPT ![t] =
                             [pc |-> "drain", left |-> Tail(buffers)]]
    /\ sk_frames' = Append(sk_frames, SkFrame(t))

\* The drain of a task returns; the task hands over its next buffer, if it
\* has one, and drains again.
SkDrained(t) ==
    /\ sk_task[t].pc = "drain"
    /\ IF sk_task[t].left = <<>>
       THEN /\ sk_task' = [sk_task EXCEPT ![t] = SkIdle]
            /\ UNCHANGED sk_stream
       ELSE /\ sk_stream' = sk_stream \o Head(sk_task[t].left)
            /\ sk_task' = [sk_task EXCEPT ![t].left = Tail(@)]
    /\ UNCHANGED sk_frames

\* Bounds: the clients the entry accepts and the fragments of one session.
MaxHsSessions == 2
MaxHsFragments == 1

\* The connections connect_paths opens, by index.
HsPaths == {0, 1}
\* No sleep has followed the frame.
HsNoSleep == 0 - 1
\* No handshake list has been built for the path.
HsNoFamily == 0 - 1

\* default_profiles(): family_id -> the handshake template of the family.
handshake_specs ==
    [f \in {1, 2, 3} |->
        IF f = 1
        THEN <<[direction |-> DIR_UP, size |-> 32, delay_ms |-> 5],
               [direction |-> DIR_DOWN, size |-> 24, delay_ms |-> 10]>>
        ELSE IF f = 2
        THEN <<[direction |-> DIR_UP, size |-> 48, delay_ms |-> 3],
               [direction |-> DIR_UP, size |-> 16, delay_ms |-> 6]>>
        ELSE <<[direction |-> DIR_DOWN, size |-> 40, delay_ms |-> 8],
               [direction |-> DIR_UP, size |-> 20, delay_ms |-> 5]>>]

\* A flawed handshake of the first template entry only.
handshake_frames_first_spec(window_id, session_id, path_id, family_id, extra) ==
    LET spec == handshake_specs[family_id][1]
    IN  << [frame |-> [session_id |-> session_id, seq |-> 0,
                       direction |-> spec.direction, path_id |-> path_id,
                       window_id |-> window_id, proto_id |-> family_id,
                       flags |-> FLAG_HANDSHAKE, frag_id |-> 0, frag_total |-> 1,
                       payload |-> [k \in 1..spec.size |-> RandByte],
                       extra_header |-> extra],
            delay_ms |-> spec.delay_ms] >>

\* ProtoObfuscator.handshake_frames(session_id, path_id, family_id,
\* variant_id) with build_handshake_frames: the (frame, delay_ms) pairs of
\* the family, window_id being state.window_id and extra what
\* pick_extra_header returned for the variant.
handshake_frames(window_id, session_id, path_id, family_id, extra) ==
    LET family == handshake_specs[family_id]
    IN  [i \in 1..Len(family) |->
            [frame |-> [session_id |-> session_id, seq |-> i - 1,
                        direction |-> family[i].direction, path_id |-> path_id,
                        window_id |-> window_id, proto_id |-> family_id,
                        flags |-> FLAG_HANDSHAKE, frag_id |-> 0, frag_total |-> 1,
                        payload |-> [k \in 1..family[i].size |-> RandByte],
                        extra_header |-> extra],
             delay_ms |-> family[i].delay_ms]]

\* EntryNode.__init__: family 1 and variant 0 on every path, no window task.
HsInit ==
    /\ hs_pc = "idle"
    /\ hs_sessions = 0
    /\ hs_window_task = FALSE
    /\ hs_family_by_path = [p \in HsPaths |-> 1]
    /\ hs_variant_by_path = [p \in HsPaths |-> 0]
    /\ hs_path = 0
    /\ hs_todo = <<>>
    /\ hs_chunks = 0
    /\ hs_family_used = [p \in HsPaths |-> HsNoFamily]
    /\ hs_wire = [p \in HsPaths |-> <<>>]

\* handle_client up to the return of connect_paths: fresh connections, and
\* send_handshake is at the top of its loop over them.
HsAccept ==
    /\ hs_pc = "idle"
    /\ hs_sessions < MaxHsSessions
    /\ hs_sessions' = hs_sessions + 1
    /\ hs_wire' = [p \in HsPaths |-> <<>>]
    /\ hs_family_used' = [p \in HsPaths |-> HsNoFamily]
    /\ hs_path' = 0
    /\ hs_todo' = <<>>
    /\ hs_chunks' = 0
    /\ hs_pc' = "path"
    /\ UNCHANGED <<hs_window_task, hs_family_by_path, hs_variant_by_path>>

\* send_handshake, the top of the loop over conns: the list of the next path
\* is built from family_by_path and variant_by_path as they are now; after
\* the last path handle_client goes on, starts the window task if there is
\* none, and enters its read loop.
HsPathStart ==
    /\ hs_pc = "path"
    /\ IF hs_path \in HsPaths
       THEN LET family_id == hs_family_by_path[hs_path]
                variants == default_profiles[family_id]
                variant == variants[(hs_variant_by_path[hs_path] % Len(variants)) + 1]
            IN  /\ \E extra \in ExtraHeaders(variant) :
                       hs_todo' = handshake_frames(0, TnSession, hs_path,
                                                   family_id, extra)
                /\ hs_family_used' = [hs_family_used EXCEPT ![hs_path] = family_id]
                /\ hs_pc' = IF hs_todo' = <<>> THEN "path" ELSE "write"
                /\ hs_path' = IF hs_todo' = <<>> THEN hs_path + 1 ELSE hs_path
                /\ UNCHANGED hs_window_task
       ELSE /\ hs_pc' = "relay"
            /\ hs_window_task' = TRUE
            /\ UNCHANGED <<hs_todo, hs_family_used, hs_path>>
    /\ UNCHANGED <<hs_sessions, hs_family_by_path, hs_variant_by_path,
                   hs_chunks, hs_wire>>

\* send_handshake: writer.write(frame.encode()) and the drain.
HsWrite ==
    /\ hs_pc = "write"
    /\ hs_wire' = [hs_wire EXCEPT ![hs_path] =
                      Append(@, [frame |-> Head(hs_todo).frame, slept |-> HsNoSleep])]
    /\ hs_pc' = "sleep"
    /\ UNCHANGED <<hs_sessions, hs_window_task, hs_family_by_path,
                   hs_variant_by_path, hs_path, hs_todo, hs_chunks,
                   hs_family_used>>

\* send_handshake: asyncio.sleep(delay_ms / 1000) returns, and the loop goes
\* on to the next pair or to the next path.
HsSlept ==
    /\ hs_pc = "sleep"
    /\ hs_wire' = [hs_wire EXCEPT ![hs_path][Len(hs_wire[hs_path])].slept =
                      Head(hs_todo).delay_ms]
    /\ hs_todo' = Tail(hs_todo)
    /\ hs_pc' = IF Tail(hs_todo) = <<>> THEN "path" ELSE "write"
    /\ hs_path' = IF Tail(hs_todo) = <<>> THEN hs_path + 1 ELSE hs_path
    /\ UNCHANGED <<hs_sessions, hs_window_task, hs_family_by_path,
                   hs_variant_by_path, hs_chunks, hs_family_used>>

\* start_window_loop, running since the first session: family_by_path and
\* variant_by_path become those of an output of evaluate, which are family 1
\* and variant 0 on every path or follow family_index and variant_seed.
HsWindowTick ==
    /\ hs_window_task
    /\ \E adaptive_proto \in BOOLEAN, family_index \in 0..(Len(FamilyIds) - 1),
          variant_seed \in 0..1 :
          /\ hs_family_by_path' =
                 [p \in HsPaths |->
                     IF adaptive_proto
                     THEN FamilyIds[((family_index + p) % Len(FamilyIds)) + 1]
                     ELSE 1]
          /\ hs_variant_by_path' =
                 [p \in HsPaths |->
                     IF adaptive_proto THEN (variant_seed + p) % 2 ELSE 0]
    /\ UNCHANGED <<hs_pc, hs_sessions, hs_window_task, hs_path, hs_todo,
                   hs_chunks, hs_family_used, hs_wire>>

\* send_chunk in the read loop of handle_client: a FRAGMENT frame is written
\* to the connection of a path.
HsSendChunk(path_id) ==
    /\ hs_pc = "relay"
    /\ hs_chunks < MaxHsFragments
    /\ hs_chunks' = hs_chunks + 1
    /\ hs_wire' = [hs_wire EXCEPT ![path_id] =
                      Append(@, [frame |-> [WireBase EXCEPT
                                               !.session_id = TnSession,
                                               !.seq = hs_chunks,
                                               !.path_id = path_id,
                                               !.proto_id = hs_family_by_path[path_id],
                                               !.payload = <<RandByte>>],
                                 slept |-> HsNoSleep])]
    /\ UNCHANGED <<hs_pc, hs_sessions, hs_window_task, hs_family_by_path,
                   hs_variant_by_path, hs_path, hs_todo, hs_family_used>>

\* The client closes: handle_client leaves its read loop and closes the
\* path writers.
HsClientClosed ==
    /\ hs_pc = "relay"
    /\ hs_pc' = "idle"
    /\ UNCHANGED <<hs_sessions, hs_window_task, hs_family_by_path,
                   hs_variant_by_path, hs_path, hs_todo, hs_chunks,
                   hs_family_used, hs_wire>>

FbNext ==
    \/ /\ \E s \in FbSeqs : FbSplit(s)
       /\ UNCHANGED fbOthers
    \/ /\ \E s \in FbSeqs : FbFeed(s)
       /\ UNCHANGED fbOthers

ShNext ==
    \/ /\ \E t \in ShTasks : SendFragmenting(t)
       /\ UNCHANGED shOthers
    \/ /\ \E t \in ShTasks : SendEmit(t)
       /\ UNCHANGED shOthers
    \/ /\ ShWindowTick
       /\ UNCHANGED shOthers

WeightsNext ==
    /\ UpdateWeights
    /\ UNCHANGED schedOthers

SchedNext ==
    \/ /\ \E p \in SchedPaths, seq \in SchedSeqs : MarkSent(p, seq)
       /\ UNCHANGED schedOthers
    \/ /\ \E p \in SchedPaths, seq \in SchedSeqs : MarkAck(p, seq)
       /\ UNCHANGED schedOthers
    \/ /\ Snapshot
       /\ UNCHANGED schedOthers
    \/ /\ AdvanceClock
       /\ UNCHANGED schedOthers

StNext ==
    \/ /\ StConstruct
       /\ UNCHANGED stOthers
    \/ /\ StEvaluate
       /\ UNCHANGED stOthers

DlNext ==
    \/ /\ \E t \in DlTasks, s \in 0..(MaxDownSeq - 1) : DlEnqueue(t, s)
       /\ UNCHANGED dlOthers
    \/ /\ \E t \in DlTasks : DlDrained(t)
       /\ UNCHANGED dlOthers

XsNext ==
    \/ /\ \E t \in XsTasks : \E p \in XsPayloads(t, xs_count) : XsForward(t, p)
       /\ UNCHANGED xsOthers
    \/ /\ \E t \in XsTasks : XsAcquire(t)
       /\ UNCHANGED xsOthers
    \/ /\ \E t \in XsTasks : XsConnected(t)
       /\ UNCHANGED xsOthers
    \/ /\ \E t \in XsTasks : XsDrained(t)
       /\ UNCHANGED xsOthers
    \/ /\ \E t \in XsTasks : XsRead(t)
       /\ UNCHANGED xsOthers
    \/ /\ \E t \in XsTasks : XsDownlinkDone(t)
       /\ UNCHANGED xsOthers
    \/ /\ \E k \in 1..2 : ServerEcho(k)
       /\ UNCHANGED xsOthers

\* No action of the client follows a failed connect, and "connected" is
\* never reached: see EntryNeverServes.
SuNext ==
    \/ /\ \E env \in SuEnvs : SuLoadEnv(env)
       /\ UNCHANGED suOthers
    \/ /\ \E p \in SuProcs : SuStartPlain(p)
       /\ UNCHANGED suOthers
    \/ /\ SuStartExit
       /\ UNCHANGED suOthers
    \/ /\ SuStartEntry
       /\ UNCHANGED suOthers
    \/ /\ SuStartClient
       /\ UNCHANGED suOthers

ObNext ==
    \/ /\ ObSend
       /\ UNCHANGED obOthers
    \/ /\ ObReceive
       /\ UNCHANGED obOthers
    \/ /\ ObReset
       /\ UNCHANGED obOthers

WrNext ==
    \/ /\ WrWrite
       /\ UNCHANGED wrOthers
    \/ /\ WrReadFrom
       /\ UNCHANGED wrOthers

XwNext ==
    \/ /\ XwConstruct
       /\ UNCHANGED xwOthers
    \/ /\ XwMiddleConnected
       /\ UNCHANGED xwOthers
    \/ /\ XwTick
       /\ UNCHANGED xwOthers

TnNext ==
    \/ /\ TnConnect(BOOLEAN)
       /\ UNCHANGED tnOthers
    \/ /\ TnSendChunk
       /\ UNCHANGED tnOthers
    \/ /\ \E p \in DOMAIN tn_exit : TnExitRead(p)
       /\ UNCHANGED tnOthers
    \/ /\ \E p \in DOMAIN tn_reader : TnReadPath(p)
       /\ UNCHANGED tnOthers

\* The session without padding, in which a middle may go away.
TnDropNext ==
    \/ /\ TnConnect({FALSE})
       /\ UNCHANGED tnOthers
    \/ /\ TnSendChunk
       /\ UNCHANGED tnOthers
    \/ /\ \E p \in DOMAIN tn_link : TnMiddleDisconnect(p)
       /\ UNCHANGED tnOthers
    \/ /\ \E p \in DOMAIN tn_exit : TnExitRead(p)
       /\ UNCHANGED tnOthers
    \/ /\ \E p \in DOMAIN tn_exit : TnExitEof(p)
       /\ UNCHANGED tnOthers
    \/ /\ \E p \in DOMAIN tn_reader : TnReadPath(p)
       /\ UNCHANGED tnOthers
    \/ /\ \E p \in DOMAIN tn_reader : TnReadEof(p)
       /\ UNCHANGED tnOthers

HcNext ==
    \/ /\ \E n \in HcPathCounts : HcConnect(n)
       /\ UNCHANGED hcOthers
    \/ /\ \E p \in DOMAIN hc_conn : HcPathLost(p, "eof")
       /\ UNCHANGED hcOthers
    \/ /\ \E p \in DOMAIN hc_conn : HcPathLost(p, "reset")
       /\ UNCHANGED hcOthers
    \/ /\ HcClientEof
       /\ UNCHANGED hcOthers
    \/ /\ HcClientClosed
       /\ UNCHANGED hcOthers
    \/ /\ HcPathClosed
       /\ UNCHANGED hcOthers

\* The entry's use of the scheduler: choose_path only.
CpNext ==
    \/ /\ \E path_ids \in CpPathSets, batch_size \in CpBatchSizes :
            \E first \in path_ids : CpConstruct(path_ids, batch_size, first)
       /\ UNCHANGED cpOthers
    \/ /\ ChoosePath
       /\ UNCHANGED cpOthers

\* Any mix of choose_path and choose_path_from calls.
CpFromNext ==
    \/ /\ \E path_ids \in CpPathSets, batch_size \in CpBatchSizes :
            \E first \in path_ids : CpConstruct(path_ids, batch_size, first)
       /\ UNCHANGED cpOthers
    \/ /\ ChoosePath
       /\ UNCHANGED cpOthers
    \/ /\ \E allowed_paths \in SUBSET cp_path_ids :
            ChoosePathFrom(allowed_paths)
       /\ UNCHANGED cpOthers

\* The entry's window loop as the source has it.
EwNext ==
    \/ /\ EwConstruct
       /\ UNCHANGED ewOthers
    \/ /\ EwStart
       /\ UNCHANGED ewOthers
    \/ /\ EwAdvanceClock
       /\ UNCHANGED ewOthers
    \/ /\ \E p \in EwPaths, seq \in EwSeqs : EwMarkSent(p, seq)
       /\ UNCHANGED ewOthers
    \/ /\ \E p \in EwPaths, seq \in EwSeqs : EwMarkAck(p, seq)
       /\ UNCHANGED ewOthers
    \/ /\ EwTick(FALSE)
       /\ UNCHANGED ewOthers

\* The entry's window loop with the evaluate call completed by the
\* window_id, so that the rest of the round runs.
EwCalledNext ==
    \/ /\ EwConstruct
       /\ UNCHANGED ewOthers
    \/ /\ EwStart
       /\ UNCHANGED ewOthers
    \/ /\ EwAdvanceClock
       /\ UNCHANGED ewOthers
    \/ /\ \E p \in EwPaths, seq \in EwSeqs : EwMarkSent(p, seq)
       /\ UNCHANGED ewOthers
    \/ /\ \E p \in EwPaths, seq \in EwSeqs : EwMarkAck(p, seq)
       /\ UNCHANGED ewOthers
    \/ /\ EwTick(TRUE)
       /\ UNCHANGED ewOthers

\* The exit's reassembler fed from the wire while its windows pass.
FwNext ==
    \/ /\ \E frame \in FwFrames : FwAdd(frame)
       /\ UNCHANGED fwOthers
    \/ /\ FwTick
       /\ UNCHANGED fwOthers

\* update_burst calls on two paths between window ticks.
UbNext ==
    \/ /\ \E p \in UbPaths : UbUpdateBurst(p)
       /\ UNCHANGED ubOthers
    \/ /\ UbWindowTick
       /\ UNCHANGED ubOthers

\* Two senders pacing one path while the clock runs and windows turn.
PcNext ==
    \/ /\ PcAdvanceClock
       /\ UNCHANGED pcOthers
    \/ /\ \E t \in PcTasks, size \in PcSizes : PcPace(t, size)
       /\ UNCHANGED pcOthers
    \/ /\ \E t \in PcTasks : PcWake(t)
       /\ UNCHANGED pcOthers
    \/ /\ PcWindowTick
       /\ UNCHANGED pcOthers

\* The exit's window loop with downlink traffic between the ticks.
XwTrafficNext ==
    \/ /\ XwConstruct
       /\ xw_cfg' \in XwTrafficConfigs
       /\ UNCHANGED xwOthers
    \/ /\ XwMiddleConnected
       /\ UNCHANGED xwOthers
    \/ /\ \E p \in DOMAIN xw_path_states, len \in XwPieceLens : XwSendDownlink(p, len)
       /\ UNCHANGED xwOthers
    \/ /\ XwEmit
       /\ UNCHANGED xwOthers
    \/ /\ xw_window_id < MaxTrafficTicks
       /\ XwTick
       /\ UNCHANGED xwOthers

\* One EntryNode serving client connections one after the other.
SnNext ==
    \/ /\ SnAccept
       /\ UNCHANGED snOthers
    \/ /\ SnSendChunk
       /\ UNCHANGED snOthers
    \/ /\ \E seq \in 0..(MaxSessionChunks - 1) : SnEnqueueDownlink(seq)
       /\ UNCHANGED snOthers
    \/ /\ SnClientClosed
       /\ UNCHANGED snOthers

\* The entry's window loop over lossless middles: every chunk sent is
\* reassembled by the exit and its ACK is read before the clock moves on.
EwAckedNext ==
    \/ /\ EwConstruct
       /\ UNCHANGED ewOthers
    \/ /\ EwStart
       /\ UNCHANGED ewOthers
    \/ /\ ew_chunks.unacked = {}
       /\ EwAdvanceClock
       /\ UNCHANGED ewOthers
    \/ /\ \E n \in 1..2 : \E fragments \in [1..n -> EwPaths] : EwSendChunk(fragments)
       /\ UNCHANGED ewOthers
    \/ /\ \E p \in EwPaths, seq \in EwSeqs : EwReadAck(p, seq)
       /\ UNCHANGED ewOthers
    \/ /\ EwTick(FALSE)
       /\ UNCHANGED ewOthers

\* Three tasks of the exit writing to the writer of one path.
SkNext ==
    \/ /\ \E t \in SkTasks : SkWrite(t)
       /\ UNCHANGED skOthers
    \/ /\ \E t \in SkTasks : SkDrained(t)
       /\ UNCHANGED skOthers

\* The sessions of the entry, one client after another, and its window task.
HsNext ==
    \/ /\ HsAccept
       /\ UNCHANGED hsOthers
    \/ /\ HsPathStart
       /\ UNCHANGED hsOthers
    \/ /\ HsWrite
       /\ UNCHANGED hsOthers
    \/ /\ HsSlept
       /\ UNCHANGED hsOthers
    \/ /\ HsWindowTick
       /\ UNCHANGED hsOthers
    \/ /\ \E p \in HsPaths : HsSendChunk(p)
       /\ UNCHANGED hsOthers
    \/ /\ HsClientClosed
       /\ UNCHANGED hsOthers

Init ==
    /\ FbInit
    /\ SchedInit
    /\ ShInit
    /\ StInit
    /\ DlInit
    /\ XsInit
    /\ SuInit
    /\ XwInit
    /\ ObInit
    /\ WrInit
    /\ TnInit
    /\ HcInit
    /\ CpInit
    /\ EwInit
    /\ FwInit
    /\ UbInit
    /\ PcInit
    /\ SnInit
    /\ SkInit
    /\ HsInit

SpecFrag == Init /\ [][FbNext]_vars
SpecWeights == Init /\ [][WeightsNext]_vars
SpecSched == Init /\ [][SchedNext]_vars
SpecShaper == Init /\ [][ShNext]_vars
SpecStrategy == Init /\ [][StNext]_vars
SpecReorder == Init /\ [][DlNext]_vars
SpecExitServer == Init /\ [][XsNext]_vars
SpecStartup == Init /\ [][SuNext]_vars
SpecExitWindow == Init /\ [][XwNext]_vars
SpecExitTraffic == Init /\ [][XwTrafficNext]_vars
SpecObfuscation == Init /\ [][ObNext]_vars
SpecWire == Init /\ [][WrNext]_vars
SpecTunnel == Init /\ [][TnNext]_vars
SpecPathDrop == Init /\ [][TnDropNext]_vars
SpecTeardown == Init /\ [][HcNext]_vars
SpecChoosePath == Init /\ [][CpNext]_vars
SpecChoosePathFrom == Init /\ [][CpFromNext]_vars
SpecEntryWindow == Init /\ [][EwNext]_vars
SpecEntryWindowCalled == Init /\ [][EwCalledNext]_vars
SpecEntryAcked == Init /\ [][EwAckedNext]_vars
SpecFragWindow == Init /\ [][FwNext]_vars
SpecBurst == Init /\ [][UbNext]_vars
SpecPace == Init /\ [][PcNext]_vars
SpecSessions == Init /\ [][SnNext]_vars
SpecPathWriter == Init /\ [][SkNext]_vars
SpecHandshake == Init /\ [][HsNext]_vars

\* ------------------------------------------------------------------------
\* C1. Reassembly: for one seq split into frag_total fragments and fed in
\* any order, every call of add before the one that supplies the last
\* missing fragment returns (False, None), and that last call - and no
\* other - returns (True, the original bytes in frag_id order).
\* ------------------------------------------------------------------------
C1_Reassembly ==
    \A s \in FbSeqs :
        /\ Len(fb_ret[s]) = Cardinality(fb_fed[s])
        /\ \A k \in 1..Len(fb_ret[s]) :
              IF k < Len(fb_src[s])
              THEN /\ ~fb_ret[s][k].complete
                   /\ fb_ret[s][k].none
                   /\ ~fb_ret[s][k].raised
              ELSE /\ fb_ret[s][k].complete
                   /\ ~fb_ret[s][k].none
                   /\ fb_ret[s][k].payload = Concat(fb_src[s])
                   /\ s \notin DOMAIN fb_buffers

\* A payload of three fragments was completed by frag_id 0 arriving last,
\* while the other seq is still partly buffered.
C1_Witness ==
    \E s \in FbSeqs :
        /\ Len(fb_src[s]) = 3
        /\ Len(fb_ret[s]) = 3
        /\ fb_ret[s][3].complete
        /\ fb_src[s][1] # fb_src[s][3]
        /\ \E t \in FbSeqs \ {s} : t \in DOMAIN fb_buffers

\* ------------------------------------------------------------------------
\* C7. Weight clamp: after any sequence of update_weights calls with
\* arbitrary weight maps, every stored weight is at least 0.1.
\* ------------------------------------------------------------------------
C7_WeightClamp ==
    \A p \in SchedPaths : weights[p] >= WeightFloor

\* update_weights was called with weights below the floor: one path sits at
\* the floor and the other was raised above its initial weight.
C7_Witness ==
    \E p, q \in SchedPaths : weights[p] = WeightFloor /\ weights[q] > WeightOne

\* ------------------------------------------------------------------------
\* C8. Loss formula: after any sequence of mark_sent and mark_ack calls,
\* snapshot() reports 0 <= loss <= 1 for every path, and loss = 0 whenever
\* sent = 0.
\* ------------------------------------------------------------------------
C8_LossRange ==
    \A p \in SchedPaths :
        LET l == snapshot(stats)[p].loss
        IN  /\ l.den > 0
            /\ 0 <= l.num
            /\ l.num <= l.den
            /\ (stats[p].sent = 0 => l.num = 0)
            /\ (stats[p].sent > 0 /\ stats[p].acked <= stats[p].sent
                   => l.num * stats[p].sent = (stats[p].sent - stats[p].acked) * l.den)

\* More ACKs than sends were counted on a path that did send (an ACK for a
\* seq never sent there), and the snapshot taken then reports loss 0.
C8_Witness ==
    \E p \in SchedPaths :
        /\ stats[p].sent > 0
        /\ stats[p].acked > stats[p].sent
        /\ sched_metrics[p].loss.num = 0
        /\ sched_metrics = snapshot(stats)

\* ------------------------------------------------------------------------
\* C5. Padding budget: in every reachable state of the shaping engine, for
\* every path, padding_bytes <= padding_budget - also when a window tick
\* falls between the fragmenting loop and the padding emission of a send.
\* ------------------------------------------------------------------------
C5_PaddingWithinBudget ==
    \A p \in ShPaths :
        /\ path_states[p].padding_bytes >= 0
        /\ path_states[p].padding_bytes <= path_states[p].padding_budget

\* A window tick fell between the fragmenting loop and the emission of a
\* fragment; the emission fired update_burst and make_padding_frames made a
\* padding frame, cut down to the budget of the new window, which it used up.
C5_Witness ==
    /\ sh_last.fire
    /\ sh_last.win < sh_window_id
    /\ Len(sh_last.sizes) = 1
    /\ sh_last.sizes[1] \notin ShBins
    /\ \E p \in ShPaths :
          /\ path_states[p].padding_bytes = sh_last.sizes[1]
          /\ path_states[p].padding_bytes = path_states[p].padding_budget

\* A padding burst of two frames, the second one cut down to the budget left.
C5_WitnessTwoFrames ==
    /\ Len(sh_last.sizes) = 2
    /\ sh_last.sizes[2] < sh_last.sizes[1]
    /\ \E p \in ShPaths :
          /\ path_states[p].padding_bytes = SeqSum(sh_last.sizes)
          /\ path_states[p].padding_bytes = path_states[p].padding_budget

\* ------------------------------------------------------------------------
\* C6. In every reachable state, for every path, padding_budget equals
\* floor(real_bytes * padding_alpha) for the padding_alpha installed on
\* that path, also after a window tick replaced the parameters.
\* ------------------------------------------------------------------------
C6_BudgetFormula ==
    \A p \in ShPaths :
        path_states[p].padding_budget =
            (path_states[p].real_bytes * params_by_path[p].padding_alpha) \div AlphaDen

\* After a tick that installed another padding_alpha, real bytes were noted
\* on a path and the product real_bytes * alpha is not a whole number.
C6_Witness ==
    \E p \in ShPaths :
        /\ sh_window_id > 0
        /\ params_by_path[p].padding_alpha = 100
        /\ path_states[p].real_bytes > 0
        /\ path_states[p].padding_budget > 0
        /\ (path_states[p].real_bytes * 100) % AlphaDen # 0

\* ------------------------------------------------------------------------
\* C9. Controller determinism: two StrategyEngine instances with equal
\* configuration and equal counters, called with equal (metrics,
\* timeout_events, window_id), return equal StrategyOutput, size_bins of
\* every BehaviorParams included.
\* ------------------------------------------------------------------------
C9_Determinism ==
    st_window_id > 0 => st_out[1] = st_out[2]

\* What does hold: the counters stay equal, and the outputs agree in every
\* field but the size_bins of the BehaviorParams.
C9_EqualButSizeBins ==
    st_window_id > 0 =>
        /\ st_ctr[1] = st_ctr[2]
        /\ [st_out[1] EXCEPT !.behavior_by_path =
               [p \in StPaths |-> [@[p] EXCEPT !.size_bins = <<>>]]]
           = [st_out[2] EXCEPT !.behavior_by_path =
               [p \in StPaths |-> [@[p] EXCEPT !.size_bins = <<>>]]]

\* ------------------------------------------------------------------------
\* C10. Level 0 silences shaping: with obfuscation_level = 0, for every
\* mode, every setting of the adaptive toggles and every metrics snapshot,
\* every BehaviorParams returned by evaluate has enable_shaping =
\* enable_padding = enable_pacing = enable_jitter = false and
\* padding_alpha = 0.
\* ------------------------------------------------------------------------
C10_Level0Silent ==
    (st_window_id > 0 /\ st_cfg.obfuscation_level = 0) =>
        \A e \in StEngines, p \in StPaths :
            LET b == st_out[e].behavior_by_path[p]
            IN  /\ ~b.enable_shaping
                /\ ~b.enable_padding
                /\ ~b.enable_pacing
                /\ ~b.enable_jitter
                /\ b.padding_alpha = 0

\* The same statement for mode normal alone: it fails too, by the overload
\* damping that lifts padding_alpha from 0 to 0.01.
C10_Level0SilentNormal ==
    (st_window_id > 0 /\ st_cfg.obfuscation_level = 0 /\ st_cfg.mode = "normal") =>
        \A e \in StEngines, p \in StPaths :
            LET b == st_out[e].behavior_by_path[p]
            IN  /\ ~b.enable_shaping
                /\ ~b.enable_padding
                /\ ~b.enable_pacing
                /\ ~b.enable_jitter
                /\ b.padding_alpha = 0

\* ------------------------------------------------------------------------
\* C2. Ordered delivery: whatever the order in which the read_path tasks
\* hand completed payloads to enqueue_downlink, the payloads written to the
\* client are those of seq 0, 1, 2, ... in strictly ascending order, none
\* skipped and none written twice; the client's byte stream is their
\* concatenation; and whenever no task is suspended inside the loop, every
\* payload that has arrived and is next in line has been written.
\* ------------------------------------------------------------------------
C2_OrderedDelivery ==
    /\ \A i \in 1..Len(dl_written) : dl_written[i] = i - 1
    /\ dl_client = Concat([i \in 1..Len(dl_written) |-> DlPayload(i - 1)])
    /\ (\A t \in DlTasks : dl_pc[t] = "read") =>
          /\ next_down_seq = Len(dl_written)
          /\ next_down_seq \notin DOMAIN pending_down

\* Seq 2 arrived first, then seq 1, then seq 0; the task that brought seq 0
\* has written all three, in order, and is in the drain of the last write.
C2_Witness ==
    /\ Len(dl_arrivals) >= 3
    /\ dl_arrivals[1] = 2
    /\ dl_arrivals[2] = 1
    /\ dl_arrivals[3] = 0
    /\ dl_written = <<0, 1, 2>>
    /\ \E t \in DlTasks : dl_pc[t] = "drain"
    /\ \E t \in DlTasks : dl_pc[t] = "read"

\* ------------------------------------------------------------------------
\* C4. The exit's write of a request to the server and the readexactly of
\* its response are one critical section: at most one handle_middle task
\* is between taking and releasing the server lock; while a task is
\* between its write and its readexactly, the only bytes on the server
\* socket pair are those of its own request (echoed or still to be
\* echoed); and the response every task gets is the echo of its own
\* request.
\* ------------------------------------------------------------------------
C4_ServerCriticalSection ==
    /\ \A t1, t2 \in XsTasks :
          (/\ xs_pc[t1] \in {"connect", "drain", "readexactly"}
           /\ xs_pc[t2] \in {"connect", "drain", "readexactly"}) => t1 = t2
    /\ \A t \in XsTasks :
          /\ xs_pc[t] \in {"drain", "readexactly"} => srv_out \o srv_in = xs_req[t]
          /\ xs_pc[t] = "downlink" => xs_resp[t] = xs_req[t]
    /\ (\A t \in XsTasks : xs_pc[t] \notin {"drain", "readexactly"}) =>
          srv_in = <<>> /\ srv_out = <<>>

\* A task has read the two-byte echo of its own request and released the
\* lock while the two other tasks queued on the lock behind it.
C4_Witness ==
    \E t \in XsTasks :
        /\ xs_pc[t] = "downlink"
        /\ Len(xs_req[t]) = 2
        /\ xs_resp[t] = xs_req[t]
        /\ Len(lock_waiters) = 2
        /\ \A u \in XsTasks \ {t} : xs_pc[u] = "lock"

\* ------------------------------------------------------------------------
\* C3. End to end with an echo target: once the run's processes have been
\* launched and the client application's run is over, the bytes written
\* back to the client are exactly the bytes of its messages, in the same
\* order (all echoes intact and in order).
\* ------------------------------------------------------------------------
C3_EchoIntact ==
    cl_pc \in {"done", "failed"} => cl_recv = Concat(ClMessages)

\* In every configuration the entry process ends in its constructor: it
\* never serves, and no client ever gets connected.
EntryNeverServes ==
    /\ su_proc["entry"] # "up"
    /\ cl_pc # "connected"

\* ------------------------------------------------------------------------
\* C11. Rotation trigger: when adaptive_proto is true and timeout_events is
\* 3, one call of evaluate advances family_index by exactly 1, modulo the
\* number of family ids, and variant_seed by exactly 1, whatever the
\* window_id and the mode.
\* ------------------------------------------------------------------------
C11_TimeoutRotation ==
    [][(/\ st_window_id' # st_window_id
        /\ st_cfg.adaptive_proto
        /\ st_in'.timeout_events = 3) =>
          \A e \in StEngines :
              /\ st_ctr'[e].family_index =
                     (st_ctr[e].family_index + 1) % Len(FamilyIds)
              /\ st_ctr'[e].variant_seed = st_ctr[e].variant_seed + 1]_vars

\* Three calls in a row rotated: the last one, on the odd window_id 3 of a
\* baseline mode and with timeout_events = 3, wrapped family_index from 2
\* round to 0 and took variant_seed to 3.
C11_Witness ==
    /\ st_cfg # NoConfig
    /\ st_cfg.adaptive_proto
    /\ st_cfg.mode = "baseline_delay"
    /\ st_in.timeout_events = 3
    /\ st_in.window_id = 3
    /\ st_out[1].trigger = "timeout"
    /\ st_ctr[1] = [family_index |-> 0, variant_seed |-> 3]

\* ------------------------------------------------------------------------
\* C12. Overload damping: when mean_loss > 0.2 or mean_rtt > 250 across the
\* paths, evaluate returns padding = max(0.01, padding * 0.5), jitter =
\* max(5, jitter * 0.5) and rate = rate * 0.8 of the level preset (padding 0,
\* jitter 0, rate 2 * base at level 0; the base padding and jitter with rate
\* 1.2 * base, base, 0.8 * base at levels 1, 2, 3); when neither threshold
\* is exceeded it returns the preset unchanged; and at level 2 with
\* base_padding 0.1, base_jitter 20, base_rate 50000 and mean_rtt 300 it
\* returns padding_alpha 0.05, jitter_ms 10, rate_bytes_per_sec 40000.
\* ------------------------------------------------------------------------
C12_OverloadDamping ==
    st_window_id > 0 =>
        LET m == st_in.metrics
            l0 == m[0].loss
            l1 == m[1].loss
            over == \/ 5 * (l0.num * l1.den + l1.num * l0.den) > 2 * l0.den * l1.den
                    \/ m[0].rtt_ms + m[1].rtt_ms > 2 * 250
            level == st_cfg.obfuscation_level
            padding == IF level = 0 THEN 0 ELSE st_cfg.base_padding
            jitter == IF level = 0 THEN 0 ELSE st_cfg.base_jitter
            rate_x10 == IF level = 0 THEN 20 * st_cfg.base_rate
                        ELSE IF level = 1 THEN 12 * st_cfg.base_rate
                        ELSE IF level = 2 THEN 10 * st_cfg.base_rate
                        ELSE 8 * st_cfg.base_rate
        IN  \A e \in StEngines, p \in StPaths :
                LET b == st_out[e].behavior_by_path[p]
                IN  /\ over =>
                          /\ 2 * b.padding_alpha = Max(2 * 100, padding)
                          /\ 2 * b.jitter_ms = Max(2 * 5, jitter)
                          /\ 100 * b.rate_bytes_per_sec = 8 * rate_x10
                    /\ ~over =>
                          /\ b.padding_alpha = padding
                          /\ b.jitter_ms = jitter
                          /\ 10 * b.rate_bytes_per_sec = rate_x10
                    /\ (/\ level = 2
                        /\ st_cfg.base_padding = 1000
                        /\ m[0].rtt_ms + m[1].rtt_ms = 2 * 300) =>
                          /\ b.padding_alpha = 500
                          /\ b.jitter_ms = 10
                          /\ b.rate_bytes_per_sec = 40000

\* The scenario of the claim: level 2, base padding 0.1, no loss, mean RTT
\* 300, and the damped output 0.05 / 10 / 40000.
C12_Witness ==
    /\ st_window_id > 0
    /\ st_cfg.obfuscation_level = 2
    /\ st_cfg.base_padding = 1000
    /\ st_in.metrics[0].rtt_ms = 300
    /\ st_in.metrics[1].rtt_ms = 300
    /\ st_out[1].behavior_by_path[0].padding_alpha = 500
    /\ st_out[1].behavior_by_path[0].jitter_ms = 10
    /\ st_out[1].behavior_by_path[0].rate_bytes_per_sec = 40000

\* A snapshot that sits on both thresholds (mean loss 0.2, mean RTT 250)
\* left the level-3 preset undamped.
C12_WitnessThreshold ==
    /\ st_window_id > 0
    /\ st_cfg.obfuscation_level = 3
    /\ st_in.metrics[0].rtt_ms = 250
    /\ st_in.metrics[0].loss = Frac(2, 5)
    /\ st_out[1].behavior_by_path[0].jitter_ms = st_cfg.base_jitter
    /\ st_out[1].behavior_by_path[0].rate_bytes_per_sec = 40000

\* ------------------------------------------------------------------------
\* C14. In mode baseline_padding, for every obfuscation level, every setting
\* of the adaptive toggles and every input, each path's BehaviorParams has
\* enable_shaping = enable_padding = true and enable_pacing = enable_jitter
\* = false, and every path gets family 1, variant 0, also with
\* adaptive_proto on.
\* ------------------------------------------------------------------------
C14_BaselinePadding ==
    (st_window_id > 0 /\ st_cfg.mode = "baseline_padding") =>
        \A e \in StEngines, p \in StPaths :
            LET b == st_out[e].behavior_by_path[p]
            IN  /\ b.enable_shaping
                /\ b.enable_padding
                /\ ~b.enable_pacing
                /\ ~b.enable_jitter
                /\ st_out[e].family_by_path[p] = 1
                /\ st_out[e].variant_by_path[p] = 0

\* baseline_padding at level 3 with every adaptive toggle on: a timeout
\* rotation fired and moved the counters, and the paths still got family 1,
\* variant 0 and the baseline toggles.
C14_Witness ==
    /\ st_window_id > 0
    /\ st_cfg.mode = "baseline_padding"
    /\ st_cfg.obfuscation_level = 3
    /\ st_cfg.adaptive_proto /\ st_cfg.adaptive_behavior /\ st_cfg.adaptive_paths
    /\ st_out[1].trigger = "timeout"
    /\ st_ctr[1].family_index = 1
    /\ st_out[1].family_by_path[1] = 1
    /\ st_out[1].behavior_by_path[1].enable_padding
    /\ ~st_out[1].behavior_by_path[1].enable_pacing

\* ------------------------------------------------------------------------
\* C13. Periodic rotation, as the code has it: with adaptive_proto on,
\* proto_switch_period = 2, timeout_events = 0 and the three family ids f, in
\* mode normal, the first five window ticks fire a rotation on window_ids 2
\* and 4 only, family_index is 2 after the fifth, and the family assigned to
\* path 0 on the five ticks is f[0], f[1], f[1], f[2], f[2]: a rotation
\* shows in the assignment of the tick that fires it.
\* ------------------------------------------------------------------------
C13_PeriodicRotation ==
    (/\ xw_cfg # NoConfig
     /\ xw_cfg.adaptive_proto
     /\ xw_cfg.proto_switch_period = 2
     /\ xw_cfg.mode = "normal") =>
        /\ \A i \in 1..Len(xw_log) :
              (xw_log[i].path_id = 0 /\ xw_log[i].window_id <= 5) =>
                 /\ xw_log[i].trigger =
                       (IF xw_log[i].window_id \in {2, 4} THEN "periodic" ELSE "none")
                 /\ xw_log[i].proto_family =
                       FamilyIds[<<0, 1, 1, 2, 2>>[xw_log[i].window_id] + 1]
        /\ \A w \in 1..5 : xw_window_id >= w =>
              \E i \in 1..Len(xw_log) :
                  xw_log[i].path_id = 0 /\ xw_log[i].window_id = w
        /\ xw_window_id = 5 => xw_ctr.family_index = 2

\* Five ticks of an exit in mode normal with adaptive_proto on and period 2.
C13_Witness ==
    /\ xw_cfg # NoConfig
    /\ xw_cfg.adaptive_proto
    /\ xw_cfg.proto_switch_period = 2
    /\ xw_cfg.mode = "normal"
    /\ xw_window_id = 5
    /\ xw_ctr.family_index = 2
    /\ xw_family_by_path[0] = FamilyIds[3]
    /\ Len(xw_log) = 10

\* C13 as the claim states it: the family assigned to path 0 on the five
\* ticks is f[0], f[0], f[1], f[1], f[2].
C13_AsStated ==
    (/\ xw_cfg # NoConfig
     /\ xw_cfg.adaptive_proto
     /\ xw_cfg.proto_switch_period = 2) =>
        /\ \A i \in 1..Len(xw_log) :
              (xw_log[i].path_id = 0 /\ xw_log[i].window_id <= 5) =>
                 /\ xw_log[i].trigger =
                       (IF xw_log[i].window_id \in {2, 4} THEN "periodic" ELSE "none")
                 /\ xw_log[i].proto_family =
                       FamilyIds[<<0, 0, 1, 1, 2>>[xw_log[i].window_id] + 1]
        /\ xw_window_id = 5 => xw_ctr.family_index = 2

\* The statement of the claim for mode normal alone: it fails as well, at
\* the tick of window 2.
C13_AsStatedNormal ==
    (/\ xw_cfg # NoConfig
     /\ xw_cfg.adaptive_proto
     /\ xw_cfg.proto_switch_period = 2
     /\ xw_cfg.mode = "normal") =>
        \A i \in 1..Len(xw_log) :
            (xw_log[i].path_id = 0 /\ xw_log[i].window_id <= 5) =>
                xw_log[i].proto_family =
                    FamilyIds[<<0, 0, 1, 1, 2>>[xw_log[i].window_id] + 1]

\* ------------------------------------------------------------------------
\* C15. Payload obfuscation round trip: for every family, every variant,
\* every key in 1..255 and every payload, the empty one included, decoding
\* the encoded payload with the same variant gives the payload back; and a
\* variant whose mode is NONE encodes a payload to itself. The same holds
\* of a frame taken through apply, encode_payload and decode_payload, where
\* the decoder finds the variant from proto_id and the extra header.
\* ------------------------------------------------------------------------
C15_ObfuscationRoundTrip ==
    ob_wire # NoFrame =>
        LET variant == pick_variant(ob_in.proto_id, ob_wire.extra_header[1])
        IN  /\ family_decode_payload(ob_wire.payload, variant) = ob_in.payload
            /\ variant.mode = "none" => ob_wire.payload = ob_in.payload
            /\ ob_out # NoFrame =>
                  /\ ob_out.payload = ob_in.payload
                  /\ ob_out = [ob_wire EXCEPT !.payload = ob_in.payload]

\* A three-byte payload that is no palindrome went through family 3 (XOR,
\* then reversal) with key 255: the wire carries the key and three other
\* bytes, and the receiver got the payload back.
C15_Witness ==
    /\ ob_out # NoFrame
    /\ ob_in.proto_id = 3
    /\ ob_key = 255
    /\ ob_in.payload = <<128, 64, 255>>
    /\ ob_wire.payload = <<255, 0, 191, 127>>
    /\ ob_out.payload = <<128, 64, 255>>

\* The empty payload went through an XOR family and stayed empty.
C15_WitnessEmpty ==
    /\ ob_out # NoFrame
    /\ ob_in.proto_id = 2
    /\ ob_in.payload = <<>>
    /\ ob_wire.payload = <<>>
    /\ ob_out.payload = <<>>

\* ------------------------------------------------------------------------
\* C16. Frame codec round trip: for every well-formed frame F, the empty
\* payload and the empty extra_header included, reading a frame from the
\* bytes F.encode() produced gives a frame equal to F in every field, the
\* flags byte being the one at offset HEADER_SIZE + extra_len; this also
\* when the bytes of the next frame follow in the stream.
\* ------------------------------------------------------------------------
C16_FrameRoundTrip ==
    /\ Len(wr_read) <= Len(wr_sent)
    /\ \A i \in 1..Len(wr_read) : wr_read[i] = wr_sent[i]
    /\ wr_stream = Concat([i \in 1..(Len(wr_sent) - Len(wr_read)) |->
                              Frame_encode(wr_sent[Len(wr_read) + i])])
    /\ Len(wr_read) < Len(wr_sent) =>
          LET frame == wr_sent[Len(wr_read) + 1]
          IN  /\ frame_size(wr_stream) =
                    HEADER_SIZE + Len(frame.extra_header) + 1 + Len(frame.payload)
              /\ wr_stream[HEADER_SIZE + Len(frame.extra_header) + 1] = frame.flags

\* Two frames were written back to back and both were read: the first has
\* an extra header and a payload whose first bytes differ from its flags,
\* the second has every field at the top of its range.
C16_Witness ==
    /\ Len(wr_read) = 2
    /\ wr_stream = <<>>
    /\ wr_read[1].extra_header = <<FLAG_ACK, 7>>
    /\ wr_read[1].flags = FLAG_HANDSHAKE
    /\ wr_read[1].payload = <<FLAG_PADDING, 8>>
    /\ wr_read[2].direction = -128
    /\ wr_read[2].proto_id = 65535
    /\ wr_read[2].seq = MaxInt

\* A frame with empty payload and empty extra_header was read back.
C16_WitnessEmpty ==
    /\ Len(wr_read) >= 1
    /\ wr_read[1] = WireBase

\* ------------------------------------------------------------------------
\* C17. In a single-path session without loss, once every chunk the entry
\* sent has been reassembled, served and acknowledged by the exit and
\* echoed to the client, the scheduler snapshot reports loss = 0 for the
\* path, also when a chunk was cut into several fragments.
\* ------------------------------------------------------------------------
C17_EchoLossZero ==
    ( /\ tn_cfg # NoConfig
      /\ tn_cfg.paths = {0}
      /\ tn_seq_counter > 0
      /\ tn_next_down_seq = tn_seq_counter
      /\ tn_stats[0].acked = tn_seq_counter
      /\ tn_up[0] = <<>>
      /\ tn_down[0] = <<>> )
    => snapshot(tn_stats)[0].loss.num = 0

\* The same round trip when no chunk was cut: every frame written is the
\* only fragment of its seq.
C17_UncutLossZero ==
    ( /\ tn_cfg # NoConfig
      /\ tn_cfg.paths = {0}
      /\ tn_seq_counter > 0
      /\ tn_next_down_seq = tn_seq_counter
      /\ tn_stats[0].acked = tn_seq_counter
      /\ tn_up[0] = <<>>
      /\ tn_down[0] = <<>>
      /\ \A h \in tn_written : h.direction = DIR_UP => h.frag_total = 1 )
    => snapshot(tn_stats)[0].loss.num = 0

\* ------------------------------------------------------------------------
\* C18. No frame that carries the PADDING or the HANDSHAKE flag is passed to
\* FragmentBuffer.add or has its payload forwarded to the application (the
\* server at the exit, the client at the entry), on either receive path;
\* this covers the FRAGMENT | PADDING frames of make_padding_frames.
\* ------------------------------------------------------------------------
C18_ControlFramesConsumed ==
    \A frame \in {tn_added.exit, tn_added.entry, tn_app.exit, tn_app.entry} :
        frame # NoFrame =>
            BitAnd(frame.flags, BitOr(FLAG_PADDING, FLAG_HANDSHAKE)) = 0

\* Both receive paths have read handshake or padding frames and data: the
\* entry and the exit each wrote a FRAGMENT | PADDING frame, every frame
\* written has been read, and each node has reassembled and forwarded a seq.
C18_Witness ==
    /\ tn_cfg # NoConfig
    /\ \A p \in tn_cfg.paths : tn_up[p] = <<>> /\ tn_down[p] = <<>>
    /\ \E h \in tn_written :
          h.direction = DIR_UP /\ h.flags = BitOr(FLAG_FRAGMENT, FLAG_PADDING)
    /\ \E h \in tn_written :
          h.direction = DIR_DOWN /\ h.flags = BitOr(FLAG_FRAGMENT, FLAG_PADDING)
    /\ \E h \in tn_written : h.flags = FLAG_HANDSHAKE
    /\ tn_added.exit # NoFrame
    /\ tn_added.entry # NoFrame
    /\ tn_app.exit # NoFrame
    /\ tn_app.entry # NoFrame

\* ------------------------------------------------------------------------
\* C19. Every frame written by send_chunk or send_downlink that is not an
\* ACK, HANDSHAKE or PADDING frame carries the FRAGMENT flag and has
\* frag_id < frag_total, and all such frames of one (session_id, direction,
\* seq) carry the same frag_total.
\* ------------------------------------------------------------------------
C19_FragmentHeaders ==
    LET control == BitOr(FLAG_ACK, BitOr(FLAG_HANDSHAKE, FLAG_PADDING))
        data == { h \in tn_written : BitAnd(h.flags, control) = 0 }
    IN  /\ \A h \in data :
              /\ BitAnd(h.flags, FLAG_FRAGMENT) # 0
              /\ 0 <= h.frag_id
              /\ h.frag_id < h.frag_total
        /\ \A g, h \in data :
              ( /\ g.session_id = h.session_id
                /\ g.direction = h.direction
                /\ g.seq = h.seq )
              => g.frag_total = h.frag_total

\* Both nodes have written a seq in two fragments, next to a padding frame
\* with frag_total = 1 for the same seq.
C19_Witness ==
    /\ \E g, h \in tn_written :
          /\ g.direction = DIR_UP /\ h.direction = DIR_UP
          /\ g.seq = h.seq
          /\ g.flags = FLAG_FRAGMENT /\ h.flags = FLAG_FRAGMENT
          /\ g.frag_id = 0 /\ h.frag_id = 1 /\ h.frag_total = 2
    /\ \E g, h \in tn_written :
          /\ g.direction = DIR_DOWN /\ h.direction = DIR_DOWN
          /\ g.seq = h.seq
          /\ g.flags = FLAG_FRAGMENT /\ h.flags = FLAG_FRAGMENT
          /\ g.frag_id = 0 /\ h.frag_id = 1 /\ h.frag_total = 2
    /\ \E h \in tn_written :
          h.flags = BitOr(FLAG_FRAGMENT, FLAG_PADDING) /\ h.frag_total = 1

\* The exit has written an unshaped response: one fragment for a seq that
\* came up in two.
C19_WitnessUnshaped ==
    /\ tn_cfg # NoConfig
    /\ ~tn_cfg.enable_shaping
    /\ \E g, h \in tn_written :
          /\ g.direction = DIR_UP /\ g.flags = FLAG_FRAGMENT /\ g.frag_total = 2
          /\ h.direction = DIR_DOWN /\ h.flags = FLAG_FRAGMENT /\ h.frag_total = 1
          /\ g.seq = h.seq

\* ------------------------------------------------------------------------
\* C20. When a middle disconnects (handle_middle meets the end of its
\* stream), the exit removes that path from path_writers, and send_downlink
\* neither selects the path nor writes a fragment to it afterwards.
\* ------------------------------------------------------------------------
C20_DeadPathDropped ==
    /\ \A p \in DOMAIN tn_exit : tn_exit[p] = "done" => p \notin tn_path_writers
    /\ tn_late_writes = {}

\* The second half on its own: no downlink fragment is written to a path
\* after its handle_middle has returned.
C20_NoLateWrites == tn_late_writes = {}

\* C21: once handle_client has ended after the client's EOF, no read_path
\* task of the session is running and every path writer is closed.
C21_SessionTornDown ==
    hc_pc \in {"returned", "raised"} =>
        \A p \in DOMAIN hc_conn :
            /\ hc_read_path[p] # "running"
            /\ hc_conn[p] \in {"closed", "reset"}

\* C21, as far as the code has it: a handle_client that returns, rather than
\* being ended by an error of wait_closed, leaves no read_path running and
\* every path writer closed.
C21_ReturnedTornDown ==
    hc_pc = "returned" =>
        \A p \in DOMAIN hc_conn :
            /\ hc_read_path[p] # "running"
            /\ hc_conn[p] = "closed"

\* C22: from a fresh scheduler, the picks of choose_path come in runs of
\* batch_size picks that return the same path, and a weighted draw is made
\* at picks 1, batch_size + 1, 2 * batch_size + 1, ... and at no other.
C22_BatchedPicks ==
    cp_path_ids # {} =>
        /\ cp_draws = {i \in 1..Len(cp_picks) :
                           (i - 1) % cp_batch_size = 0}
        /\ \A i \in 1..Len(cp_picks) :
               cp_picks[i] =
                   cp_picks[((i - 1) \div cp_batch_size) * cp_batch_size + 1]

\* Two full runs on different paths, and a third begun.
C22_Witness ==
    /\ cp_batch_size = 3
    /\ Len(cp_picks) = 2 * cp_batch_size
    /\ cp_picks[1] # cp_picks[cp_batch_size + 1]
    /\ cp_draws = {1, cp_batch_size + 1}

\* The result of the last choose_path_from call.
C23_Returned ==
    cp_last.called =>
        IF cp_last.allowed # {}
        THEN /\ ~cp_last.raised
             /\ cp_last.ret \in cp_last.allowed
        ELSE /\ cp_last.raised
             /\ cp_last.ret = -1

\* A choose_path_from call with an empty list changes nothing of the
\* scheduler.
C23_RaisedUnchanged ==
    cp_last'.called /\ cp_last'.allowed = {} /\ cp_last' # cp_last =>
        UNCHANGED <<cp_path_ids, cp_batch_size, cp_current_path,
                    cp_batch_remaining, cp_picks, cp_draws>>

C24_Events(kind) == {i \in 1..Len(tn_exit_log) : tn_exit_log[i].kind = kind}

\* The ACK at position j of the log answers the forward at position i.
C24_Answers(j, i) ==
    LET ack == tn_exit_log[j]
        fwd == tn_exit_log[i]
    IN  /\ ack.frame.seq = fwd.frame.seq
        /\ i < j
        /\ \A k \in C24_Events("down") :
              tn_exit_log[k].seq = fwd.frame.seq => i < k /\ k < j
        /\ ack.path_id = fwd.path_id
        /\ ack.frame.path_id = fwd.frame.path_id
        /\ ack.frame.session_id = fwd.frame.session_id
        /\ ack.frame.direction = DIR_DOWN
        /\ ack.frame.flags = FLAG_ACK
        /\ Len(ack.frame.payload) = 8
        /\ UnpackBE(ack.frame.payload) = fwd.frame.seq

\* The response of the forward at position i was dispersed in full: the
\* fragments written for its seq are as many as their frag_total.
C24_Dispersed(i) ==
    LET down == {k \in C24_Events("down") :
                    tn_exit_log[k].seq = tn_exit_log[i].frame.seq}
    IN  /\ down # {}
        /\ \A k \in down : tn_exit_log[k].frag_total = Cardinality(down)

C24_AtMostOneAck ==
    /\ \A i \in C24_Events("forward") :
          Cardinality({j \in C24_Events("ack") :
              tn_exit_log[j].frame.seq = tn_exit_log[i].frame.seq}) <= 1
    /\ \A j \in C24_Events("ack") :
          \E i \in C24_Events("forward") : C24_Answers(j, i)

\* A forward whose ACK was never written: the dispersal of the response
\* wrote to a dead connection and the error ended handle_middle.
C24_ForwardWithoutAck ==
    \E i \in C24_Events("forward"), p \in DOMAIN tn_exit :
        /\ tn_exit[p] = "failed"
        /\ \A j \in C24_Events("ack") :
              tn_exit_log[j].frame.seq # tn_exit_log[i].frame.seq

\* ------------------------------------------------------------------------
\* C25. At each window tick every in-flight entry older than
\* ack_timeout_sec is removed from the scheduler's table and counted, and
\* the controller's evaluate is given, as timeout_events, the number of
\* entries expired since the previous tick.
\* ------------------------------------------------------------------------
C25_TimeoutsFedAtTick ==
    ew_tick.ticked =>
        /\ ew_tick.left = 0
        /\ ~ew_tick.raised
        /\ ew_tick.args[2] = ew_tick.expired

\* C25, the entry's part that the code has: the round removes every entry
\* older than the timeout and puts their number in the second argument of
\* its evaluate call.
C25_EntryCountsExpired ==
    ew_tick.ticked =>
        /\ ew_tick.left = 0
        /\ ew_tick.args[2] = ew_tick.expired

\* A round that expired an entry.
C25_WitnessExpired ==
    /\ ew_tick.ticked
    /\ ew_tick.expired = 1

\* C25, the exit: its scheduler never has an entry in flight (the exit calls
\* neither mark_sent nor mark_ack), and its loop passes the literal 0.
C25_ExitPassesZero ==
    \A i \in 1..Len(xw_log) : xw_log[i].trigger # "timeout"

C26_WitnessUnmatched ==
    \E p \in DOMAIN ew_stats :
        /\ ew_stats[p].acked = 1
        /\ ew_stats[p].rtt_ms = 0
        /\ ew_now > 0
        /\ \/ ew_stats[p].last_send_ts # EmptyMap
           \/ ew_tick.expired = 1

\* ---------------------------------------------------------------------
\* C27: in the reassembler the frag_total of a seq is fixed by the first
\* fragment seen; a later fragment of the same seq with a different
\* frag_total is reported as a protocol error and is used neither to decide
\* completion nor to assemble the payload.  As a step property: an add of
\* such a fragment raises, completes nothing and leaves the entry as it was.
C27_Mismatched(frame) ==
    /\ frame.seq \in DOMAIN fw_totals
    /\ frame.frag_total # fw_totals[frame.seq]

C27_MismatchRejected ==
    [][\A frame \in FwFrames :
          (FwAdd(frame) /\ C27_Mismatched(frame))
             => /\ fw_ret'.raised
                /\ ~fw_ret'.complete
                /\ fw_buffers' = fw_buffers
                /\ fw_totals' = fw_totals]_vars

\* What the code does keep: while a seq stays buffered its recorded
\* frag_total does not change.
C27_TotalFixedWhileBuffered ==
    [][\A s \in (DOMAIN fw_totals) \cap (DOMAIN fw_totals') :
          fw_totals'[s] = fw_totals[s]]_vars

\* ---------------------------------------------------------------------
\* C28: partial reassemblies are bounded by window: an incomplete entry
\* whose fragments are older than the current window minus one is evicted.
C28_StaleEvicted ==
    \A s \in DOMAIN fw_buffers : fw_seen[s] >= fw_window_id - 1

\* Nothing but a completing add removes an entry: a tick leaves the buffer
\* as it is, and an add never removes another seq's entry.
C28_OnlyCompletionRemoves ==
    [][\A s \in DOMAIN fw_buffers :
          s \notin DOMAIN fw_buffers' => (fw_ret'.called /\ fw_ret'.complete)]_vars

\* Every seq of the driver sits incomplete in the buffer two windows after
\* its last fragment.
C28_AllStaleBuffered ==
    /\ DOMAIN fw_buffers = FwSeqs
    /\ \A s \in FwSeqs : fw_seen[s] < fw_window_id - 1

C29_ExitGated ==
    [][(xw_window_id' = xw_window_id + 1 /\ ~xw_cfg.adaptive_behavior)
          => xw_q_dist' = xw_q_dist]_vars

\* The exit's gate is not idle: with adaptive_behavior on a round of its
\* loop has replaced the distribution of a path.
C29_ExitUpdated ==
    /\ xw_window_id >= 1
    /\ xw_cfg.adaptive_behavior
    /\ \E p \in DOMAIN xw_q_dist : xw_q_dist[p].seed = xw_window_id * 100 + p

\* ---------------------------------------------------------------------
\* C30: at every window tick each endpoint appends exactly one observation
\* record per path to the window log, and each record has at least the
\* fields window_id, path_id, obfuscation_level, alpha_padding,
\* rate_bytes_per_sec, jitter_ms, proto_family, proto_variant,
\* padding_bytes, real_bytes, rtt_ms, loss, trigger, action, adaptive_flags.
C30_Fields ==
    {"window_id", "path_id", "obfuscation_level", "alpha_padding",
     "rate_bytes_per_sec", "jitter_ms", "proto_family", "proto_variant",
     "padding_bytes", "real_bytes", "rtt_ms", "loss", "trigger", "action",
     "adaptive_flags"}

\* log_after is log_before followed by one record per path of the round w,
\* each with the fields of C30_Fields.
C30_RoundLogged(log_before, log_after, paths, w) ==
    /\ Len(log_after) = Len(log_before) + Cardinality(paths)
    /\ SubSeq(log_after, 1, Len(log_before)) = log_before
    /\ \A i \in (Len(log_before) + 1)..Len(log_after) :
          /\ C30_Fields \subseteq DOMAIN log_after[i]
          /\ log_after[i].window_id = w
    /\ \A p \in paths :
          Cardinality({i \in (Len(log_before) + 1)..Len(log_after) :
                          log_after[i].path_id = p}) = 1

\* The entry's part: every round of the entry's loop logs its records.
C30_EntryRecords ==
    [][ew_window_id' = ew_window_id + 1
          => C30_RoundLogged(ew_log, ew_log', EwPaths, ew_window_id')]_vars

\* The entry's loop with its evaluate call completed: one record per path
\* and round, each without real_bytes, trigger, action and adaptive_flags.
C30_EntryShortRecords ==
    [][ew_window_id' = ew_window_id + 1
          => /\ Len(ew_log') = Len(ew_log) + Cardinality(EwPaths)
             /\ \A i \in (Len(ew_log) + 1)..Len(ew_log') :
                   C30_Fields \ DOMAIN ew_log'[i] =
                      {"real_bytes", "trigger", "action", "adaptive_flags"}]_vars

\* The exit's part, which the code has: every round of the exit's loop
\* writes one complete record per path.
C30_ExitRecords ==
    [][xw_window_id' = xw_window_id + 1
          => C30_RoundLogged(xw_log, xw_log', XwPaths(xw_cfg), xw_window_id')]_vars

\* The exit has written the records of two rounds over two paths.
C30_ExitTwoRounds ==
    /\ xw_window_id = 2
    /\ XwPaths(xw_cfg) = {0, 1}
    /\ Len(xw_log) = 4

\* ---------------------------------------------------------------------
\* C32: controller trigger and counters. With adaptive_proto on, the
\* trigger of an evaluate call is "timeout" if timeout_events > 2, else
\* "periodic" if window_id % proto_switch_period = 0, else "none";
\* family_index and variant_seed change only in a call whose trigger is not
\* "none"; with adaptive_proto off the trigger is always "none" and the
\* counters never change.
C32_TriggerAndCounters ==
    [][st_window_id' # st_window_id =>
          \A e \in StEngines :
             /\ st_out'[e].trigger =
                   IF ~st_cfg.adaptive_proto THEN "none"
                   ELSE IF st_in'.timeout_events > 2 THEN "timeout"
                   ELSE IF st_in'.window_id % st_cfg.proto_switch_period = 0
                        THEN "periodic"
                   ELSE "none"
             /\ st_ctr'[e] # st_ctr[e] => st_out'[e].trigger # "none"
             /\ ~st_cfg.adaptive_proto => st_ctr'[e] = st_ctr[e]]_vars

\* On the odd window 3, after a rotation in window 2, a call with two
\* timeout events left trigger "none" and the counters as they were.
C32_Witness ==
    /\ st_cfg # NoConfig
    /\ st_cfg.adaptive_proto
    /\ st_in.window_id = 3
    /\ st_in.timeout_events = 2
    /\ st_out[1].trigger = "none"
    /\ st_ctr[1] = [family_index |-> 1, variant_seed |-> 1]

\* With adaptive_proto off three calls, one of them with three timeout
\* events, left the counters at their initial values.
C32_WitnessOff ==
    /\ st_cfg # NoConfig
    /\ ~st_cfg.adaptive_proto
    /\ st_in.window_id = 3
    /\ st_in.timeout_events = 3
    /\ st_out[1].trigger = "none"
    /\ st_ctr[1] = [family_index |-> 0, variant_seed |-> 0]

\* ---------------------------------------------------------------------
\* C33: in mode baseline_delay, for every obfuscation level and setting of
\* the adaptive toggles, each path gets family 1, variant 0, enable_shaping
\* = enable_padding = false, while enable_pacing and enable_jitter keep the
\* values of the obfuscation-level preset.
C33_BaselineDelay ==
    (st_window_id > 0 /\ st_cfg.mode = "baseline_delay") =>
        \A e \in StEngines, p \in StPaths :
            LET b == st_out[e].behavior_by_path[p]
            IN  /\ st_out[e].family_by_path[p] = 1
                /\ st_out[e].variant_by_path[p] = 0
                /\ ~b.enable_shaping
                /\ ~b.enable_padding
                /\ b.enable_pacing = (st_cfg.obfuscation_level # 0)
                /\ b.enable_jitter = (st_cfg.obfuscation_level # 0)

\* What the code does in mode baseline_delay: family 1, variant 0, shaping
\* and padding off, and pacing and jitter on at every level, level 0 too.
C33_BaselineDelayForcesPacing ==
    (st_window_id > 0 /\ st_cfg.mode = "baseline_delay") =>
        \A e \in StEngines, p \in StPaths :
            LET b == st_out[e].behavior_by_path[p]
            IN  /\ st_out[e].family_by_path[p] = 1
                /\ st_out[e].variant_by_path[p] = 0
                /\ ~b.enable_shaping
                /\ ~b.enable_padding
                /\ b.enable_pacing
                /\ b.enable_jitter

\* Level 0 in mode baseline_delay: the preset turned pacing off and the
\* returned parameters have it on.
C33_Level0Paces ==
    /\ st_window_id > 0
    /\ st_cfg.mode = "baseline_delay"
    /\ st_cfg.obfuscation_level = 0
    /\ st_out[1].behavior_by_path[0].enable_pacing

\* ---------------------------------------------------------------------
\* C34: action label priority. The action returned by evaluate is
\* "update_behavior" whenever adaptive_behavior is on; otherwise
\* "update_weights" when some weight is below 1; otherwise "switch_proto"
\* when a rotation fired; otherwise "static".
C34_ActionPriority ==
    st_window_id > 0 =>
        \A e \in StEngines :
            st_out[e].action =
               IF st_cfg.adaptive_behavior THEN "update_behavior"
               ELSE IF \E p \in StPaths : st_out[e].weights[p] < WeightOne
                    THEN "update_weights"
               ELSE IF st_out[e].trigger # "none" THEN "switch_proto"
               ELSE "static"

\* A call in which all three labels applied (a rotation fired, a weight was
\* halved, adaptive_behavior is on) returned "update_behavior".
C34_Witness ==
    /\ st_window_id > 0
    /\ st_cfg.adaptive_behavior
    /\ st_out[1].trigger # "none"
    /\ \E p \in StPaths : st_out[1].weights[p] < WeightOne
    /\ st_out[1].action = "update_behavior"

\* A call in which a rotation fired and a weight was halved, with
\* adaptive_behavior off, returned "update_weights".
C34_WitnessWeights ==
    /\ st_window_id > 0
    /\ ~st_cfg.adaptive_behavior
    /\ st_out[1].trigger = "periodic"
    /\ \E p \in StPaths : st_out[1].weights[p] < WeightOne
    /\ st_out[1].action = "update_weights"

\* ---------------------------------------------------------------------
\* C35: update_burst on a path with constant burst_size >= 1 returns true
\* on exactly every burst_size-th call since the last window reset and
\* false otherwise, and after every call 0 <= burst_count < burst_size.
C35_CountInRange ==
    \A p \in UbPaths :
        /\ ub_params[p].burst_size >= 1
        /\ ub_states[p].burst_count >= 0
        /\ ub_states[p].burst_count < ub_params[p].burst_size
        /\ ub_states[p].burst_count = ub_calls[p] % ub_params[p].burst_size

C35_FiresEveryNth ==
    [][\A p \in UbPaths :
          ub_calls'[p] = ub_calls[p] + 1 =>
             /\ ub_ret'.called
             /\ ub_ret'.path_id = p
             /\ ub_ret'.fire = (ub_calls'[p] % ub_params[p].burst_size = 0)]_vars

C35_BurstEveryNth == []C35_CountInRange /\ C35_FiresEveryNth

\* In a window whose burst_size is 4, the eighth call on path 1 fired for
\* the second time, with three calls on path 0 in between.
C35_Witness ==
    /\ ub_window_id = 1
    /\ ub_params[1].burst_size = 4
    /\ ub_calls[1] = 8
    /\ ub_calls[0] = 3
    /\ ub_ret = [path_id |-> 1, fire |-> TRUE, called |-> TRUE]
    /\ ub_states[1].burst_count = 0
    /\ ub_states[0].burst_count = 3

\* ---------------------------------------------------------------------
\* C36: pace(path, n). With enable_pacing = false it returns without
\* suspending and leaves last_ts and tokens unchanged; with pacing on it
\* suspends only when tokens < n after the refill, sets tokens to 0 after
\* the sleep and otherwise subtracts n; so tokens >= 0 in every reachable
\* state, also when several tasks pace the same path concurrently or a
\* window reset happens during the sleep.
C36_TokensNonNegative ==
    /\ pc_state.tokens >= 0
    /\ pc_state.last_ts >= 0

C36_PaceCall ==
    [][pc_calls' = pc_calls + 1
          => LET l == pc_last'
             IN  /\ l.enabled = pc_params.enable_pacing
                 /\ ~l.enabled =>
                       /\ ~l.suspended
                       /\ pc_state' = pc_state
                       /\ pc_task' = pc_task
                 /\ l.enabled =>
                       /\ l.suspended = (l.refilled < l.size)
                       /\ pc_state'.last_ts = pc_now
                       /\ pc_state'.tokens =
                             IF l.suspended THEN l.refilled ELSE l.refilled - l.size
                       /\ l.suspended =>
                             \E u \in PcTasks :
                                /\ pc_task[u].pc = "idle"
                                /\ pc_task'[u].pc = "sleeping"]_vars

C36_AfterSleep ==
    [][\A t \in PcTasks :
          (pc_task[t].pc = "sleeping" /\ pc_task'[t].pc = "idle")
             => IF pc_task[t].epoch = pc_epoch
                THEN pc_state'.tokens = 0 /\ pc_state'.last_ts = pc_state.last_ts
                ELSE pc_state' = pc_state]_vars

C36_Pace == []C36_TokensNonNegative /\ C36_PaceCall /\ C36_AfterSleep

\* Two tasks are asleep in pace on the same path, the second after the
\* first, and the bucket is not empty.
C36_Witness ==
    /\ \A t \in PcTasks : pc_task[t].pc = "sleeping"
    /\ pc_state.tokens > 0
    /\ pc_epoch = 0

\* A task that went to sleep before a window reset is still asleep after
\* it, and another task has paced on the fresh state since.
C36_WitnessReset ==
    /\ pc_epoch = 1
    /\ pc_task[1].pc = "sleeping"
    /\ pc_task[1].epoch = 0
    /\ pc_state.last_ts > 0
    /\ pc_state.tokens > 0

\* ---------------------------------------------------------------------
\* C37: every window record's padding_bytes and real_bytes equal the
\* padding and real bytes accumulated on that path during the window that
\* just ended, not the counters of the freshly reset window.
C37_RecordsObserved ==
    [][xw_window_id' = xw_window_id + 1 =>
          \A i \in (Len(xw_log) + 1)..Len(xw_log') :
             LET rec == xw_log'[i]
             IN  /\ rec.real_bytes = xw_path_states[rec.path_id].real_bytes
                 /\ rec.padding_bytes = xw_path_states[rec.path_id].padding_bytes]_vars

\* What the code writes: the counters start_window has just reset.
C37_RecordsOfResetWindow ==
    \A i \in 1..Len(xw_log) :
        xw_log[i].real_bytes = 0 /\ xw_log[i].padding_bytes = 0

\* Before the first tick path 0 has carried 400 real bytes and a padding
\* burst.
C37_TrafficBeforeTick ==
    /\ xw_window_id = 1
    /\ xw_path_states[0].real_bytes = 400
    /\ xw_path_states[0].padding_bytes > 0

\* ---------------------------------------------------------------------
\* C38: for every client connection accepted by one EntryNode, also a
\* second one after the first has closed, every downstream payload that
\* has been fully reassembled is eventually written to the client: the
\* cursor next_down_seq set at session start is not above, and is reached
\* by, the first seq that send_chunk allocates for that connection.
\* As a statement a finite run refutes: once every response of the open
\* connection has been handed to enqueue_downlink, none is left pending,
\* and the cursor stands at the connection's first seq until something is
\* written.
C38_AllDelivered ==
    /\ (sn_conn.open /\ sn_awaited = {}) => sn_pending_down = EmptyMap
    /\ (sn_conn.open /\ sn_first_seq # NoSeq /\ sn_written = <<>>)
          => sn_next_down_seq = sn_first_seq

\* The first connection of a node: all that arrived in order is written.
C38_FirstConnectionDelivered ==
    (sn_conn = [count |-> 1, open |-> TRUE] /\ sn_awaited = {}) =>
        /\ sn_pending_down = EmptyMap
        /\ sn_written = [i \in 1..sn_seq_counter |-> i - 1]

\* Nothing is ever written to the client of a connection whose first seq
\* is not 0.
C38_LaterConnectionSilent ==
    (sn_first_seq # NoSeq /\ sn_first_seq > 0) => sn_written = <<>>

\* The second connection has sent two chunks, both responses have arrived
\* and both sit in the reorder buffer.
C38_SecondConnectionStuck ==
    /\ sn_conn = [count |-> 2, open |-> TRUE]
    /\ sn_first_seq = 1
    /\ sn_awaited = {}
    /\ DOMAIN sn_pending_down = {1, 2}
    /\ sn_next_down_seq = 0

\* ---------------------------------------------------------------------
\* C39: with lossless middles and every sent seq reassembled and
\* acknowledged by the exit, no in-flight entry of the entry's scheduler is
\* ever expired as a timeout, so timeout_events stays 0, also when the
\* fragments of one seq were dispersed over several paths.
C39_NoTimeouts ==
    /\ ew_timeout_events = 0
    /\ ew_tick.ticked => ew_tick.expired = 0

\* What an ACK leaves behind: once every ACK is read, a seq is still in
\* flight on a path only if it is no longer in flight on some other path of
\* the node, that is, if its fragments were dispersed.
C39_ResidueOfDispersal ==
    (ew_cfg # NoConfig /\ ew_chunks.unacked = {}) =>
        \A p \in EwPaths : \A seq \in DOMAIN ew_stats[p].last_send_ts :
            /\ seq < ew_chunks.seq_counter
            /\ \E q \in EwPaths \ {p} : ew_stats[q].acked >= 1

\* Both chunks were dispersed over both paths and acknowledged at once;
\* the round of the loop, half a window later, expired two entries.
C39_AckedAndExpired ==
    /\ ew_chunks = [seq_counter |-> 2, unacked |-> {}]
    /\ ew_tick.ticked
    /\ ew_tick.expired = 2
    /\ ew_timeout_events = 2
    /\ \A p \in EwPaths : ew_stats[p].sent = 2

\* ---------------------------------------------------------------------
\* C40: every frame is handed to a path socket as one contiguous buffer
\* with no suspension point inside the write, so the bytes of two frames
\* are never interleaved on any socket, also when several tasks of the exit
\* (downlink dispersal from different path handlers, ACK emission) write to
\* the same path writer concurrently. At every moment the stream is the
\* frames written so far, whole and in the order of their write calls, of
\* which at most the last is still being handed over; and once no task is
\* in a write, the reader of the stream gets exactly these frames.
C40_FramesContiguous ==
    LET n == Len(sk_frames)
        all == Concat([i \in 1..n |-> Frame_encode(sk_frames[i])])
        but_last == Concat([i \in 1..(n - 1) |-> Frame_encode(sk_frames[i])])
    IN  /\ n = 0 => sk_stream = <<>>
        /\ n > 0 =>
              /\ Len(sk_stream) > Len(but_last)
              /\ Len(sk_stream) <= Len(all)
              /\ sk_stream = SubSeq(all, 1, Len(sk_stream))
        /\ (\A t \in SkTasks : sk_task[t].pc = "idle") =>
              /\ sk_stream = all
              /\ SkParse(sk_stream) = sk_frames

\* All three tasks are in their drain at once, the ACK written between the
\* two downlink fragments.
C40_Witness ==
    /\ \A t \in SkTasks : sk_task[t].pc = "drain"
    /\ Len(sk_frames) = 3
    /\ sk_frames[1].seq = 1
    /\ sk_frames[2].flags = FLAG_ACK
    /\ sk_frames[3].seq = 0

\* The handshake entries a path connection must start with: one per
\* template entry of the family its list was built from.
C31_Expected(p) ==
    IF hs_family_used[p] = HsNoFamily THEN <<>>
    ELSE handshake_specs[hs_family_used[p]]

\* Entry i of the connection of path p is the HANDSHAKE frame of template
\* entry i, followed by its sleep unless that sleep is still running.
C31_IsHandshakeOf(p, i) ==
    LET e == hs_wire[p][i]
        spec == C31_Expected(p)[i]
    IN  /\ e.frame.flags = FLAG_HANDSHAKE
        /\ e.frame.frag_total = 1
        /\ Len(e.frame.payload) = spec.size
        /\ e.frame.seq = i - 1
        /\ e.frame.direction = spec.direction
        /\ e.frame.path_id = p
        /\ \/ e.slept = spec.delay_ms
           \/ /\ e.slept = HsNoSleep
              /\ hs_pc = "sleep" /\ hs_path = p /\ i = Len(hs_wire[p])

\* The connection of path p holds its whole handshake, each frame followed
\* by its sleep.
C31_Complete(p) ==
    /\ hs_family_used[p] # HsNoFamily
    /\ Len(hs_wire[p]) >= Len(C31_Expected(p))
    /\ \A i \in 1..Len(C31_Expected(p)) :
          /\ C31_IsHandshakeOf(p, i)
          /\ hs_wire[p][i].slept = C31_Expected(p)[i].delay_ms

\* C31: on session start the entry writes, on every path, that path's
\* complete handshake sequence - one HANDSHAKE frame per handshake spec of
\* the family, in spec order, with payload length equal to the spec size and
\* frag_total = 1 - before any FRAGMENT frame of the session is written on
\* any path, waiting delay_ms after each handshake frame. On every path
\* connection the frames up to the length of the template are the
\* handshake frames in template order and all later ones are not
\* handshake frames; and as soon as any connection of the session carries
\* a frame that is not a handshake frame, every connection carries its
\* complete handshake with every sleep done.
C31_HandshakeFirst ==
    /\ \A p \in HsPaths :
          \A i \in 1..Len(hs_wire[p]) :
             IF i <= Len(C31_Expected(p))
             THEN C31_IsHandshakeOf(p, i)
             ELSE /\ hs_wire[p][i].frame.flags = FLAG_FRAGMENT
                  /\ hs_wire[p][i].slept = HsNoSleep
    /\ (\E p \in HsPaths : \E i \in 1..Len(hs_wire[p]) :
           hs_wire[p][i].frame.flags # FLAG_HANDSHAKE)
       => \A p \in HsPaths : C31_Complete(p)
    /\ hs_pc = "relay" => \A p \in HsPaths : C31_Complete(p)

\* A session whose two connections carry their whole handshake, one of them
\* followed by a FRAGMENT frame.
C31_Witness ==
    /\ hs_pc = "relay"
    /\ \A p \in HsPaths : C31_Complete(p)
    /\ \E p \in HsPaths :
          /\ Len(hs_wire[p]) > Len(C31_Expected(p))
          /\ hs_wire[p][Len(hs_wire[p])].frame.flags = FLAG_FRAGMENT

\* A later session whose paths shake hands in two different families, after
\* the window task has reassigned them.
C31_WitnessFamilies ==
    /\ hs_pc = "relay"
    /\ hs_chunks > 0
    /\ hs_family_used[0] = 2
    /\ hs_family_used[1] = 3

====
